---- MODULE Spec2Model ----
(***************************************************************************)
(* CountryCompare: the in-process TTL cache with LRU eviction and a        *)
(* background expiry sweep (backend/utils/cache_manager.py).               *)
(*                                                                         *)
(* Time is the reading of datetime.utcnow(), a natural number of clock     *)
(* units; several operations may read the same value of the clock.         *)
(***************************************************************************)
EXTENDS Integers, Sequences, FiniteSets, TLC

\* ------------------------------------------------------------------ bounds
\* The clock stops at MaxTime; a get is not taken on an entry already read
\* MaxAccess times (access_count is not bounded in the program).
MaxTime == 2
MaxAccess == 1

\* ------------------------------------------------------------------ inputs
Keys == {"a", "b", "c"}
Values == {"v1", "v2"}
\* The default a caller passes to get (distinct from every stored value).
Default == "dflt"
\* ttl arguments of set: negative, zero and positive.
TtlArgs == {-1, 0, 1}
\* Constructor arguments.
MaxSizes == {0, 1, 2}
DefaultTtls == {1}

VARIABLES
    cache,        \* self.cache: normalized key -> CacheItem
    order,        \* iteration order of self.cache (a dict keeps insertion order)
    max_size,     \* self.max_size
    default_ttl,  \* self.default_ttl
    now,          \* the clock
    sweeper,      \* the sweep thread: "running" or "dead"
    lock,         \* self.lock: the thread that holds it, or "free"
    th,           \* per thread: where it is in the method it runs, and its locals
    recency,      \* history: the present keys in the order of their last use
    last,         \* history: the last call that changed the cache
    raised,       \* history: the exceptions that calls of the cache have raised
    caches,       \* CacheManager.caches: name -> the MemoryCache registered under it
    default_cache,\* CacheManager.default_cache
    instances,    \* the MemoryCache objects constructed so far, by identity
    mth,          \* per thread calling the manager: where it is in get_cache
    query,        \* get_economic_data: the arguments and the provider's responses
    year,         \* datetime.now().year
    first,        \* history: the outcome of the first call made with the query
    result,       \* history: the outcome of the latest call made with the query
    api_cache,    \* APICache._cache: key -> (data, timestamp)
    clock,        \* the time that has passed and what datetime.now() adds to it
    answer,       \* history: the latest call of a function wrapped by CacheDecorator
    countries,    \* the countries table: the names of its rows
    comparisons,  \* the comparisons table: its rows, in the order they were added
    response      \* history: the latest request to /api/compare and its answer

vars == <<cache, order, max_size, default_ttl, now, sweeper, lock, th, recency, last,
          raised, caches, default_cache, instances, mth, query, year, first, result,
          api_cache, clock, answer, countries, comparisons, response>>

\* The state of the callers of get_economic_data.
estimator == <<query, year, first, result>>

\* The state of the CacheManager and of the caches it has constructed.
manager == <<caches, default_cache, instances, mth>>

\* The state outside the MemoryCache object and its threads.
\* The state of APICache and of the wall clock it reads.
api == <<api_cache, clock>>

\* The state of the wrapped functions and of the compare endpoint.
service == <<answer, countries, comparisons, response>>
beyond == <<manager, estimator, api, service>>
outside == <<raised, beyond>>

\* The state that normalizing a key cannot touch.
keyless == <<cache, order, max_size, default_ttl, now, sweeper, lock, th, recency, last>>

\* Two request threads and the sweep thread of the cache.
Threads == {"t1", "t2", "sweep"}

\* A thread that runs no method of the cache.
Idle == [pc |-> "idle", op |-> "", key |-> "", value |-> "", ttl |-> 0,
         victim |-> "", todo |-> <<>>, seen |-> <<>>]

\* ------------------------------------------------------------------ helpers
Max(a, b) == IF a > b THEN a ELSE b

\* del d[k] on the iteration order.
Without(seq, k) == SelectSeq(seq, LAMBDA x : x # k)

\* d[k] = item on a mapping.
Store(c, k, item) == [x \in (DOMAIN c) \cup {k} |-> IF x = k THEN item ELSE c[x]]

\* del d[k] on a mapping.
Drop(c, k) == [x \in (DOMAIN c) \ {k} |-> c[x]]

\* The record of a call that changed the cache: the method, its normalized
\* key ("" when it takes none), the keys it removed and, for set, the ttl
\* argument (ttl_given is FALSE for ttl=None).
Call(op, key, removed) ==
    [op |-> op, key |-> key, removed |-> removed, ttl_given |-> FALSE, ttl |-> 0]

\* ------------------------------------------------------------------ CacheItem
CacheItem(value, ttl, t) ==
    [value |-> value, ttl |-> ttl, created_at |-> t,
     access_count |-> 0, last_accessed |-> t]

\* is_expired, had it measured the ttl from the last access.
IsExpiredSliding(item, t) ==
    IF item.ttl <= 0 THEN FALSE
    ELSE t > item.last_accessed + item.ttl

IsExpired(item, t) ==
    IF item.ttl <= 0 THEN FALSE
    ELSE t > item.created_at + item.ttl

\* touch, had it renewed the entry's life as well.
TouchRenews(item, t) ==
    [item EXCEPT !.access_count = @ + 1, !.last_accessed = t, !.created_at = t]

\* touch, had it counted the access without recording its time.
TouchCountsOnly(item, t) ==
    [item EXCEPT !.access_count = @ + 1]

Touch(item, t) ==
    [item EXCEPT !.access_count = @ + 1, !.last_accessed = t]

\* ------------------------------------------------------------------ MemoryCache
\* ttl = ttl or self.default_ttl: None and 0 are both falsy.
EffectiveTtl(given, ttl) ==
    IF given /\ ttl # 0 THEN ttl ELSE default_ttl

\* _evict_lru's choice with max for min: the most recently used key.
MruKey(c, o) ==
    LET better(i) == \A j \in 1..Len(o) :
                        \/ c[o[i]].last_accessed > c[o[j]].last_accessed
                        \/ (c[o[i]].last_accessed = c[o[j]].last_accessed /\ i <= j)
    IN  o[CHOOSE i \in 1..Len(o) : better(i)]

\* min(self.cache.keys(), key=last_accessed): the first key in iteration
\* order whose last_accessed is minimal.
LruKey(c, o) ==
    LET better(i) == \A j \in 1..Len(o) :
                        \/ c[o[i]].last_accessed < c[o[j]].last_accessed
                        \/ (c[o[i]].last_accessed = c[o[j]].last_accessed /\ i <= j)
    IN  o[CHOOSE i \in 1..Len(o) : better(i)]

EvictLru(c, o) ==
    IF Len(o) = 0 THEN [cache |-> c, order |-> o]
    ELSE LET k == LruKey(c, o)
         IN  [cache |-> Drop(c, k), order |-> Without(o, k)]

NeedsEviction(c, o, k) == Len(o) >= max_size /\ k \notin DOMAIN c

Set(k, v, given, ttl) ==
    LET ev == IF NeedsEviction(cache, order, k)
              THEN EvictLru(cache, order)
              ELSE [cache |-> cache, order |-> order]
        item == CacheItem(v, EffectiveTtl(given, ttl), now)
    IN  /\ cache' = Store(ev.cache, k, item)
        /\ order' = IF k \in DOMAIN ev.cache THEN ev.order ELSE Append(ev.order, k)
        /\ recency' = Append(SelectSeq(recency, LAMBDA x : x \in DOMAIN ev.cache /\ x # k), k)
        /\ last' = [Call("set", k, (DOMAIN cache) \ (DOMAIN ev.cache))
                        EXCEPT !.ttl_given = given, !.ttl = ttl]
        /\ UNCHANGED <<max_size, default_ttl, outside, now, sweeper, lock, th>>

\* What get returns in the current state.
GetReturn(k, default) ==
    IF k \in DOMAIN cache
    THEN IF IsExpired(cache[k], now) THEN default ELSE cache[k].value
    ELSE default

Get(k, default) ==
    /\ k \in DOMAIN cache /\ ~IsExpired(cache[k], now)
          => cache[k].access_count < MaxAccess
    /\ IF k \in DOMAIN cache
       THEN IF IsExpired(cache[k], now)
            THEN /\ cache' = Drop(cache, k)
                 /\ order' = Without(order, k)
                 /\ recency' = Without(recency, k)
                 /\ last' = Call("get", k, {k})
            ELSE /\ cache' = [cache EXCEPT ![k] = Touch(@, now)]
                 /\ order' = order
                 /\ recency' = Append(Without(recency, k), k)
                 /\ last' = Call("get", k, {})
       ELSE UNCHANGED <<cache, order, recency, last>>
    /\ UNCHANGED <<max_size, default_ttl, outside, now, sweeper, lock, th>>

\* delete, had it reported only the removal of an entry that was still live.
DeleteReturnLive(k) == k \in DOMAIN cache /\ ~IsExpired(cache[k], now)

\* What delete returns in the current state.
DeleteReturn(k) == k \in DOMAIN cache

Delete(k) ==
    /\ IF k \in DOMAIN cache
       THEN /\ cache' = Drop(cache, k)
            /\ order' = Without(order, k)
            /\ recency' = Without(recency, k)
            /\ last' = Call("delete", k, {k})
       ELSE UNCHANGED <<cache, order, recency, last>>
    /\ UNCHANGED <<max_size, default_ttl, outside, now, sweeper, lock, th>>

Clear ==
    /\ cache' = <<>>
    /\ order' = <<>>
    /\ recency' = <<>>
    /\ last' = IF order = <<>> THEN last ELSE Call("clear", "", DOMAIN cache)
    /\ UNCHANGED <<max_size, default_ttl, outside, now, sweeper, lock, th>>

\* exists, had it touched the live entry it finds as get does.
ExistsTouches(k) ==
    /\ k \in DOMAIN cache /\ ~IsExpired(cache[k], now)
          => cache[k].access_count < MaxAccess
    /\ IF k \in DOMAIN cache
       THEN IF IsExpired(cache[k], now)
            THEN /\ cache' = Drop(cache, k)
                 /\ order' = Without(order, k)
                 /\ recency' = Without(recency, k)
                 /\ last' = Call("exists", k, {k})
            ELSE /\ cache' = [cache EXCEPT ![k] = Touch(@, now)]
                 /\ UNCHANGED <<order, recency, last>>
       ELSE UNCHANGED <<cache, order, recency, last>>
    /\ UNCHANGED <<max_size, default_ttl, outside, now, sweeper, lock, th>>

\* What exists returns in the current state.
ExistsReturn(k) ==
    IF k \in DOMAIN cache THEN ~IsExpired(cache[k], now) ELSE FALSE

Exists(k) ==
    /\ IF k \in DOMAIN cache /\ IsExpired(cache[k], now)
       THEN /\ cache' = Drop(cache, k)
            /\ order' = Without(order, k)
            /\ recency' = Without(recency, k)
            /\ last' = Call("exists", k, {k})
       ELSE UNCHANGED <<cache, order, recency, last>>
    /\ UNCHANGED <<max_size, default_ttl, outside, now, sweeper, lock, th>>

\* remaining = item.ttl - (utcnow() - item.created_at); max(0, int(remaining))
Remaining(item, t) == Max(0, item.ttl - (t - item.created_at))

\* What ttl returns in the current state.
TtlReturn(k) ==
    IF k \in DOMAIN cache
    THEN IF IsExpired(cache[k], now) THEN -1 ELSE Remaining(cache[k], now)
    ELSE -1

Ttl(k) ==
    /\ IF k \in DOMAIN cache /\ IsExpired(cache[k], now)
       THEN /\ cache' = Drop(cache, k)
            /\ order' = Without(order, k)
            /\ recency' = Without(recency, k)
            /\ last' = Call("ttl", k, {k})
       ELSE UNCHANGED <<cache, order, recency, last>>
    /\ UNCHANGED <<max_size, default_ttl, outside, now, sweeper, lock, th>>

\* expired_keys, had the comparison been >= : an entry at the last instant
\* of its life counts as expired.
ExpiredKeysInclusive(c, t) ==
    {k \in DOMAIN c : c[k].ttl > 0 /\ t >= c[k].created_at + c[k].ttl}

\* expired_keys = [key for key, item in self.cache.items() if item.is_expired]
ExpiredKeys(c, t) == {k \in DOMAIN c : IsExpired(c[k], t)}

\* for key in expired_keys: del self.cache[key]
Swept(c, t) == [x \in (DOMAIN c) \ ExpiredKeys(c, t) |-> c[x]]

\* What cleanup_expired returns in the current state: len(expired_keys).
CleanupReturn == Cardinality(ExpiredKeys(cache, now))

CleanupExpired(op) ==
    /\ cache' = Swept(cache, now)
    /\ order' = SelectSeq(order, LAMBDA x : x \in DOMAIN Swept(cache, now))
    /\ recency' = SelectSeq(recency, LAMBDA x : x \in DOMAIN Swept(cache, now))
    /\ last' = IF ExpiredKeys(cache, now) = {} THEN last
               ELSE Call(op, "", ExpiredKeys(cache, now))

Cleanup ==
    /\ CleanupExpired("cleanup_expired")
    /\ UNCHANGED <<max_size, default_ttl, outside, now, sweeper, lock, th>>

\* What size returns in the current state.
SizeReturn == Cardinality(DOMAIN cache)

Size == UNCHANGED vars

\* What keys returns in the current state: the keys that are not expired, in
\* iteration order.
KeysReturn == SelectSeq(order, LAMBDA k : ~IsExpired(cache[k], now))

ListKeys == UNCHANGED vars

\* What stats returns in the current state (the two quotients,
\* average_access_count and usage_percentage, are left out).
StatsReturn ==
    LET RECURSIVE total(_)
        total(o) == IF o = <<>> THEN 0
                    ELSE cache[Head(o)].access_count + total(Tail(o))
        expired_items == Cardinality({k \in DOMAIN cache : IsExpired(cache[k], now)})
    IN  [total_items |-> Len(order),
         expired_items |-> expired_items,
         active_items |-> Len(order) - expired_items,
         total_access_count |-> total(order),
         max_size |-> max_size]

CacheStats == UNCHANGED vars

\* ------------------------------------------------------------------ sweep thread
\* A ttl beyond the calendar: created_at + timedelta(seconds=ttl) lies after
\* datetime.max (from about 2.5e11 seconds on) and is_expired raises
\* OverflowError. The number stands for any such ttl.
TtlBeyondCalendar == 1000000

\* is_expired raises on the item.
IsExpiredRaises(item) == item.ttl >= TtlBeyondCalendar

\* cleanup_expired raises: the comprehension that collects expired_keys
\* reads is_expired of every entry, before anything is deleted.
CleanupRaises(c) == \E k \in DOMAIN c : IsExpiredRaises(c[k])

\* while True: time.sleep(self._cleanup_interval); self.cleanup_expired()
\* One pass of the loop. How long the thread sleeps against the clock of the
\* model is left open: a pass may come at any time. Nothing in the loop
\* catches an exception: when cleanup_expired raises, the thread ends.
\* The loop, had it been a single pass.
LoopsOnce == FALSE

LoopsForever == TRUE

Sweep ==
    /\ sweeper = "running"
    /\ IF CleanupRaises(cache)
       THEN /\ sweeper' = "dead"
            /\ raised' = raised \cup {"OverflowError"}
            /\ UNCHANGED <<cache, order, recency, last, beyond>>
       ELSE /\ CleanupExpired("sweep")
            /\ sweeper' = IF LoopsForever THEN "running" ELSE "dead"
            /\ UNCHANGED outside
    /\ UNCHANGED <<max_size, default_ttl, now, lock, th>>

\* ------------------------------------------------------------------ clock
Tick ==
    /\ now < MaxTime
    /\ now' = now + 1
    /\ UNCHANGED <<cache, order, max_size, default_ttl, outside, sweeper, lock, th, recency, last>>

\* ------------------------------------------------------------------ CacheManager, constructed
\* The entries of the caches the manager hands out: one key, which is
\* absent, live or expired.
InstanceKeys == {"a"}
EmptyCache == [k \in InstanceKeys |-> "absent"]

\* The threads that call the manager, and a thread that is in no call.
ManagerThreads == {"m1", "m2"}
ManagerIdle == [pc |-> "idle", name |-> "", new |-> 0, ret |-> 0,
                op |-> "", used |-> 0, pos |-> 0, seen |-> {}, kept |-> {}]

\* CacheManager.__init__: an empty registry and the default cache, the first
\* MemoryCache constructed.
ManagerInit ==
    /\ caches = <<>>
    /\ instances = <<EmptyCache>>
    /\ default_cache = 1
    /\ mth = [t \in ManagerThreads |-> ManagerIdle]

\* ------------------------------------------------------------------ get_economic_data, not called
\* A number m * k / d, kept exact: Python computes in floating point, which
\* is not modelled.
Num(m, k, d) == [m |-> m, k |-> k, d |-> d]
Zero == Num(0, 1, 1)
Amount(n) == Num(n, 1, 1)

\* hdi, life_expectancy and internet_penetration are counted in units of
\* 1/Scale, the common denominator of the divisions of the HDI formula.
Scale == 3000000
Scaled(u) == Num(u, 1, Scale)

\* No record: the call has raised, or has not been made.
NoData ==
    [gdp |-> Zero, gdp_per_capita |-> Zero, hdi |-> Zero, life_expectancy |-> Zero,
     internet_penetration |-> Zero, data_source |-> ""]

\* The outcome of a call: the exception it raised ("" for none) and the
\* record it returned.
Returned(data) == [called |-> TRUE, raised |-> "", data |-> data]
Raised(exception) == [called |-> TRUE, raised |-> exception, data |-> NoData]
NotCalled == [called |-> FALSE, raised |-> "", data |-> NoData]

\* What datetime.now().year reads first.
ThisYear == 2026

\* No call of get_economic_data is made.
EstimatorIdle ==
    /\ query = [name |-> "", population |-> 0, region |-> "", responses |-> <<>>]
    /\ year = ThisYear
    /\ first = [at |-> ThisYear] @@ NotCalled
    /\ result = [at |-> ThisYear] @@ NotCalled

\* ------------------------------------------------------------------ APICache, not used
\* The class attribute _cache = {}; the clock at the start: no time has
\* passed and datetime.now() is not shifted.
APICacheEmpty ==
    /\ api_cache = <<>>
    /\ clock = [real |-> 0, shift |-> 0]

\* ------------------------------------------------------------------ the service, not called
\* No wrapped function was called, the tables are empty (db.create_all()) and
\* no compare request was made.
NoAnswer == [called |-> FALSE, args |-> "", value |-> "", executed |-> FALSE]
NoResponse == [status |-> 0, c1 |-> "", c2 |-> ""]

ServiceIdle ==
    /\ answer = NoAnswer
    /\ countries = {}
    /\ comparisons = <<>>
    /\ response = NoResponse

\* ------------------------------------------------------------------ specification
Init ==
    /\ cache = <<>>
    /\ order = <<>>
    /\ max_size \in MaxSizes
    /\ default_ttl \in DefaultTtls
    /\ now = 0
    /\ sweeper = "running"
    /\ lock = "free"
    /\ th = [t \in Threads |-> Idle]
    /\ recency = <<>>
    /\ last = Call("init", "", {})
    /\ raised = {}
    /\ ManagerInit
    /\ APICacheEmpty
    /\ ServiceIdle
    /\ EstimatorIdle

\* The calls a client can make with keys from K and values from V, the passes
\* of the sweep thread and the clock.
NextOver(K, V) ==
    \/ \E k \in K, v \in V, ttl \in TtlArgs : Set(k, v, TRUE, ttl)
    \/ \E k \in K, v \in V : Set(k, v, FALSE, 0)
    \/ \E k \in K : Get(k, Default)
    \/ \E k \in K : Delete(k)
    \/ Clear
    \/ \E k \in K : Exists(k)
    \/ \E k \in K : Ttl(k)
    \/ Cleanup
    \/ Size
    \/ ListKeys
    \/ CacheStats
    \/ Sweep
    \/ Tick

Next == NextOver(Keys, Values)

Spec == Init /\ [][Next]_vars

\* The same program with fewer distinct keys and values in use, and the sweep
\* thread scheduled fairly: a pass that has something to remove is not
\* postponed forever.
LiveKeys == {"a", "b"}
LiveValues == {"v1"}

LiveNext == NextOver(LiveKeys, LiveValues)

LiveSpec == Init /\ [][LiveNext]_vars /\ WF_vars(Sweep)

\* The sweep thread over entries of which some cannot be swept: set is given
\* a ttl of a second or one beyond the calendar.
SweepTtls == {1, TtlBeyondCalendar}

SweepInit ==
    /\ cache = <<>>
    /\ order = <<>>
    /\ max_size = 2
    /\ default_ttl \in DefaultTtls
    /\ now = 0
    /\ sweeper = "running"
    /\ lock = "free"
    /\ th = [t \in Threads |-> Idle]
    /\ recency = <<>>
    /\ last = Call("init", "", {})
    /\ raised = {}
    /\ ManagerInit
    /\ APICacheEmpty
    /\ ServiceIdle
    /\ EstimatorIdle

SweepNext ==
    \/ \E k \in LiveKeys, v \in LiveValues, ttl \in SweepTtls : Set(k, v, TRUE, ttl)
    \/ \E k \in LiveKeys : Delete(k)
    \/ Sweep
    \/ Tick

SweepSpec == SweepInit /\ [][SweepNext]_vars

\* ------------------------------------------------------------------ invalidate_cache
\* invalidate_cache(pattern, cache_name) on the cache get_cache hands out. The
\* patterns: None (given is FALSE), the empty string, a key, and a string
\* longer than every key.
Patterns == {"", "a", "ab"}

\* pattern in str(key), for keys of one character.
Contains(pattern, key) == pattern = "" \/ pattern = key

\* keys_to_delete: the keys of cache.keys() that contain the pattern.
KeysToDelete(pattern) == SelectSeq(KeysReturn, LAMBDA k : Contains(pattern, k))

\* What invalidate_cache returns in the current state: cache.size() once
\* cache.clear() has emptied the cache when there is no pattern,
\* len(keys_to_delete) otherwise.
InvalidateCacheReturn(given, pattern) ==
    IF ~given THEN Cardinality(DOMAIN <<>>)
    ELSE Len(KeysToDelete(pattern))

InvalidateCache(given, pattern) ==
    LET gone == IF given THEN {KeysToDelete(pattern)[i] : i \in 1..Len(KeysToDelete(pattern))}
                ELSE DOMAIN cache
    IN  /\ cache' = [k \in (DOMAIN cache) \ gone |-> cache[k]]
        /\ order' = SelectSeq(order, LAMBDA k : k \notin gone)
        /\ recency' = SelectSeq(recency, LAMBDA k : k \notin gone)
        /\ last' = [Call("invalidate_cache", pattern, gone) EXCEPT !.ttl_given = given]
        /\ UNCHANGED <<max_size, default_ttl, outside, now, sweeper, lock, th>>

InvalidateNext ==
    \/ \E k \in Keys, v \in LiveValues, ttl \in TtlArgs : Set(k, v, TRUE, ttl)
    \/ \E pattern \in Patterns : InvalidateCache(TRUE, pattern)
    \/ InvalidateCache(FALSE, "")
    \/ Tick

InvalidateSpec == Init /\ [][InvalidateNext]_vars

\* ------------------------------------------------------------------ threads
\* The same methods statement by statement, run by the request threads and
\* the sweep thread. A thread that waits for the lock is a thread that has
\* not begun: _generate_key and "ttl or self.default_ttl" touch no shared
\* state. recency and last are not kept here.
ThreadKeys == {"a", "b"}
ThreadValue == "v1"
ClientThreads == Threads \ {"sweep"}
KeyedOps == {"get", "exists", "ttl", "delete"}
PlainOps == {"clear", "size", "stats", "keys", "cleanup_expired"}

\* Entering the method body without waiting for the lock.
AcquireNoWait(t) == lock' = t

\* with self.lock: the thread enters when no thread holds the lock.
Acquire(t) == lock = "free" /\ lock' = t

\* The first statement of a method inside its with block.
FirstStep(op) ==
    IF op \in KeyedOps \cup {"set"} THEN "check"
    ELSE IF op = "cleanup_expired" THEN "scan"
    ELSE "whole"

Begin(t, op, k, ttl) ==
    /\ th[t].pc = "idle"
    /\ Acquire(t)
    /\ (op = "get" /\ k \in DOMAIN cache) => cache[k].access_count < MaxAccess
    /\ th' = [th EXCEPT ![t] = [Idle EXCEPT !.pc = FirstStep(op), !.op = op,
                                            !.key = k, !.ttl = ttl, !.seen = cache,
                                            !.value = IF op = "set" THEN ThreadValue ELSE ""]]
    /\ UNCHANGED <<cache, order, max_size, default_ttl, outside, now, sweeper, recency, last>>

\* An exception leaves the with block, which releases the lock; the call has
\* failed.
Raise(t) ==
    /\ th' = [th EXCEPT ![t].pc = "KeyError"]
    /\ lock' = IF lock = t THEN "free" ELSE lock

\* The thread goes on to the statement at label, the cache as it is.
GoOn(t, label) ==
    /\ th' = [th EXCEPT ![t].pc = label]
    /\ UNCHANGED <<cache, order, lock>>

\* del self.cache[k], then on to label.
DelKey(t, k, label) ==
    IF k \in DOMAIN cache
    THEN /\ cache' = Drop(cache, k)
         /\ order' = Without(order, k)
         /\ th' = [th EXCEPT ![t].pc = label, ![t].seen = Drop(cache, k),
                             ![t].todo = IF @ = <<>> THEN @ ELSE Tail(@)]
         /\ lock' = lock
    ELSE /\ Raise(t)
         /\ UNCHANGED <<cache, order>>

\* if cache_key in self.cache:
Check(t) ==
    /\ th[t].pc = "check" /\ th[t].op \in KeyedOps
    /\ GoOn(t, IF th[t].key \notin DOMAIN cache THEN "release"
               ELSE IF th[t].op = "delete" THEN "del" ELSE "item")
    /\ UNCHANGED <<max_size, default_ttl, outside, now, sweeper, recency, last>>

\* item = self.cache[cache_key]; if item.is_expired:
Item(t) ==
    /\ th[t].pc = "item"
    /\ IF th[t].key \notin DOMAIN cache
       THEN Raise(t) /\ UNCHANGED <<cache, order>>
       ELSE GoOn(t, IF IsExpired(cache[th[t].key], now) THEN "del"
                    ELSE IF th[t].op = "get" THEN "touch" ELSE "release")
    /\ UNCHANGED <<max_size, default_ttl, outside, now, sweeper, recency, last>>

\* del self.cache[cache_key]
Del(t) ==
    /\ th[t].pc = "del"
    /\ DelKey(t, th[t].key, "release")
    /\ UNCHANGED <<max_size, default_ttl, outside, now, sweeper, recency, last>>

\* item.touch(): the item the thread holds, still in the cache or not.
TouchItem(t) ==
    /\ th[t].pc = "touch"
    /\ LET k == th[t].key
           c == IF k \in DOMAIN cache THEN [cache EXCEPT ![k] = Touch(@, now)] ELSE cache
       IN  /\ cache' = c
           /\ th' = [th EXCEPT ![t].pc = "release", ![t].seen = c]
    /\ UNCHANGED <<order, lock, max_size, default_ttl, outside, now, sweeper, recency, last>>

\* if len(self.cache) >= self.max_size and cache_key not in self.cache:
SetCheck(t) ==
    /\ th[t].pc = "check" /\ th[t].op = "set"
    /\ GoOn(t, IF NeedsEviction(cache, order, th[t].key) THEN "evict" ELSE "store")
    /\ UNCHANGED <<max_size, default_ttl, outside, now, sweeper, recency, last>>

\* _evict_lru: if not self.cache: return; lru_key = min(...)
Evict(t) ==
    /\ th[t].pc = "evict"
    /\ IF Len(order) = 0
       THEN th' = [th EXCEPT ![t].pc = "store"]
       ELSE th' = [th EXCEPT ![t].pc = "evictdel", ![t].victim = LruKey(cache, order)]
    /\ UNCHANGED <<cache, order, lock, max_size, default_ttl, outside, now, sweeper, recency, last>>

\* del self.cache[lru_key]
EvictDel(t) ==
    /\ th[t].pc = "evictdel"
    /\ DelKey(t, th[t].victim, "store")
    /\ UNCHANGED <<max_size, default_ttl, outside, now, sweeper, recency, last>>

\* self.cache[cache_key] = CacheItem(value, ttl)
StoreItem(t) ==
    /\ th[t].pc = "store"
    /\ LET k == th[t].key
           c == Store(cache, k, CacheItem(th[t].value, th[t].ttl, now))
       IN  /\ cache' = c
           /\ order' = IF k \in DOMAIN cache THEN order ELSE Append(order, k)
           /\ th' = [th EXCEPT ![t].pc = "release", ![t].seen = c]
    /\ UNCHANGED <<lock, max_size, default_ttl, outside, now, sweeper, recency, last>>

\* expired_keys = [key for key, item in self.cache.items() if item.is_expired]
Scan(t) ==
    /\ th[t].pc = "scan"
    /\ th' = [th EXCEPT ![t].pc = "purge",
                        ![t].todo = SelectSeq(order, LAMBDA x : IsExpired(cache[x], now))]
    /\ UNCHANGED <<cache, order, lock, max_size, default_ttl, outside, now, sweeper, recency, last>>

\* for key in expired_keys: del self.cache[key]
Purge(t) ==
    /\ th[t].pc = "purge"
    /\ IF th[t].todo = <<>>
       THEN GoOn(t, "release")
       ELSE DelKey(t, Head(th[t].todo), "purge")
    /\ UNCHANGED <<max_size, default_ttl, outside, now, sweeper, recency, last>>

\* clear, size, stats, keys: one pass over the mapping.
Whole(t) ==
    /\ th[t].pc = "whole"
    /\ IF th[t].op = "clear"
       THEN /\ cache' = <<>>
            /\ order' = <<>>
            /\ th' = [th EXCEPT ![t].pc = "release", ![t].seen = <<>>]
       ELSE /\ th' = [th EXCEPT ![t].pc = "release"]
            /\ UNCHANGED <<cache, order>>
    /\ UNCHANGED <<lock, max_size, default_ttl, outside, now, sweeper, recency, last>>

\* The end of the method, had it returned without releasing the lock (an
\* acquire() with no release() on the path).
ReleaseForgotten(t) ==
    /\ th[t].pc = "release"
    /\ th' = [th EXCEPT ![t] = Idle]
    /\ UNCHANGED <<lock, cache, order, max_size, default_ttl, outside, now, sweeper, recency, last>>

\* The end of the with block.
Release(t) ==
    /\ th[t].pc = "release"
    /\ lock' = "free"
    /\ th' = [th EXCEPT ![t] = Idle]
    /\ UNCHANGED <<cache, order, max_size, default_ttl, outside, now, sweeper, recency, last>>

ThreadNextOver(Clients) ==
    \/ \E t \in Clients, op \in KeyedOps, k \in ThreadKeys : Begin(t, op, k, 0)
    \/ \E t \in Clients, k \in ThreadKeys :
          \/ Begin(t, "set", k, EffectiveTtl(TRUE, -1))
          \/ Begin(t, "set", k, EffectiveTtl(FALSE, 0))
    \/ \E t \in Clients, op \in PlainOps : Begin(t, op, "", 0)
    \/ Begin("sweep", "cleanup_expired", "", 0)
    \/ \E t \in Threads :
          \/ Check(t)
          \/ Item(t)
          \/ Del(t)
          \/ TouchItem(t)
          \/ SetCheck(t)
          \/ Evict(t)
          \/ EvictDel(t)
          \/ StoreItem(t)
          \/ Scan(t)
          \/ Purge(t)
          \/ Whole(t)
          \/ Release(t)
    \/ Tick

ThreadNext == ThreadNextOver(ClientThreads)

ThreadSpec == Init /\ [][ThreadNext]_vars

\* The statements of a thread inside a method. The scheduler lets every
\* thread that can run a statement run it in the end.
Statement(t) ==
    \/ Check(t)
    \/ Item(t)
    \/ Del(t)
    \/ TouchItem(t)
    \/ SetCheck(t)
    \/ Evict(t)
    \/ EvictDel(t)
    \/ StoreItem(t)
    \/ Scan(t)
    \/ Purge(t)
    \/ Whole(t)
    \/ Release(t)

\* One request thread and the sweep thread, scheduled fairly.
LockThreads == {"t1"}

\* A cache of one entry: every set of a new key evicts.
LockInit ==
    /\ cache = <<>>
    /\ order = <<>>
    /\ max_size = 1
    /\ default_ttl \in DefaultTtls
    /\ now = 0
    /\ sweeper = "running"
    /\ lock = "free"
    /\ th = [t \in Threads |-> Idle]
    /\ recency = <<>>
    /\ last = Call("init", "", {})
    /\ raised = {}
    /\ ManagerInit
    /\ APICacheEmpty
    /\ ServiceIdle
    /\ EstimatorIdle

ThreadLiveSpec ==
    /\ LockInit
    /\ [][ThreadNextOver(LockThreads)]_vars
    /\ \A t \in Threads : WF_vars(Statement(t))

\* ------------------------------------------------------------------ key normalization
\* A Python value that occurs in a key is a record: its type t and v, which
\* tells it from the other values of the type.
\*   int v            the integer v
\*   str v            the string of the digit v: "1", "2"
\*   obj v            a value json.dumps cannot serialize (a set, an object)
\*   dict_int_key v   the mapping {v: 0}
\*   dict_str_key v   the mapping {"v": 0}
PyValue(t, v) == [t |-> t, v |-> v]

\* The elements of the sequence keys, and the keys and values of the mapping
\* keys, that callers pass.
Elements ==
    {PyValue("int", 1), PyValue("obj", 1),
     PyValue("dict_int_key", 1), PyValue("dict_str_key", 1)}
MappingFields == {PyValue("int", 1), PyValue("int", 2), PyValue("str", 1)}
MappingValues == {PyValue("int", 1), PyValue("obj", 1)}

\* A key as the caller passes it: its kind (the isinstance branch it takes)
\* and its items: the string itself, the (key, value) pairs of a mapping in
\* insertion order, the elements of a list or tuple, or the value of any
\* other type.
Key(kind, items) == [kind |-> kind, items |-> items]

SeqsUpTo2(S) == {<<>>} \cup {<<x>> : x \in S} \cup {<<x, y>> : x \in S, y \in S}

StringKeys == {Key("str", <<PyValue("str", v)>>) : v \in {1, 2}}
MappingKeys ==
    {Key("dict", items) :
        items \in {q \in SeqsUpTo2(MappingFields \X MappingValues) :
                      Len(q) = 2 => q[1][1] # q[2][1]}}
SequenceKeys ==
    {Key(kind, items) : kind \in {"list", "tuple"}, items \in SeqsUpTo2(Elements)}
OtherKeys == {Key("other", <<PyValue("int", 1)>>)}
RawKeys == StringKeys \cup MappingKeys \cup SequenceKeys \cup OtherKeys

\* str(x) of a value.
StrOf(x) == ToString(x.v)

\* json.dumps of a value: an int as its digits, a string quoted, a mapping as
\* an object whose keys are strings, an int key turned into its digits.
JsonValue(x) ==
    CASE x.t = "int" -> ToString(x.v)
      [] x.t = "str" -> "\"" \o ToString(x.v) \o "\""
      [] x.t = "dict_int_key" -> "{\"" \o ToString(x.v) \o "\": 0}"
      [] x.t = "dict_str_key" -> "{\"" \o ToString(x.v) \o "\": 0}"
      [] OTHER -> "TypeError"

\* json.dumps raises TypeError on a value it cannot serialize.
Serializable(x) == x.t # "obj"

\* json.dumps of a list or tuple of already serialized parts: "[a, b]".
JsonList(parts) ==
    CASE Len(parts) = 0 -> "[]"
      [] Len(parts) = 1 -> "[" \o parts[1] \o "]"
      [] OTHER -> "[" \o parts[1] \o ", " \o parts[2] \o "]"

\* sorted(key.items()) compares the keys of the pairs: an int and a str
\* cannot be compared (TypeError).
Orderable(items) == \A i, j \in 1..Len(items) : items[i][1].t = items[j][1].t

\* The items of a mapping left in insertion order.
ItemsAsInserted(items) == items

\* sorted(key.items()) of a mapping whose keys can be compared.
SortedItems(items) == SortSeq(items, LAMBDA p, q : p[1].v < q[1].v)

\* hashlib.md5(text).hexdigest(): a digest that tells apart the texts hashed
\* here; the digest itself is not computed.
Md5(text) == "md5(" \o text \o ")"

\* _generate_key raises TypeError: from sorted on a mapping whose keys cannot
\* be ordered, from json.dumps on a value it cannot serialize.
KeyRaises(key) ==
    CASE key.kind = "dict" ->
            \/ ~Orderable(key.items)
            \/ \E i \in 1..Len(key.items) : ~Serializable(key.items[i][2])
      [] key.kind \in {"list", "tuple"} ->
            \E i \in 1..Len(key.items) : ~Serializable(key.items[i])
      [] OTHER -> FALSE

\* _generate_key of a key on which it does not raise.
GenerateKey(key) ==
    CASE key.kind = "str" -> StrOf(key.items[1])
      [] key.kind = "dict" ->
            LET sorted_items == SortedItems(key.items)
            IN  Md5(JsonList([i \in 1..Len(sorted_items) |->
                        JsonList(<<JsonValue(sorted_items[i][1]),
                                   JsonValue(sorted_items[i][2])>>)]))
      [] key.kind \in {"list", "tuple"} ->
            Md5(JsonList([i \in 1..Len(key.items) |-> JsonValue(key.items[i])]))
      [] OTHER -> StrOf(key.items[1])

\* The call raises out of _generate_key, before it takes the lock.
RaiseTypeError ==
    /\ raised' = raised \cup {"TypeError"}
    /\ UNCHANGED <<keyless, beyond>>

SetKey(key, v) ==
    IF KeyRaises(key) THEN RaiseTypeError ELSE Set(GenerateKey(key), v, FALSE, 0)

GetKey(key, default) ==
    IF KeyRaises(key) THEN RaiseTypeError ELSE Get(GenerateKey(key), default)

DeleteKey(key) ==
    IF KeyRaises(key) THEN RaiseTypeError ELSE Delete(GenerateKey(key))

ExistsKey(key) ==
    IF KeyRaises(key) THEN RaiseTypeError ELSE Exists(GenerateKey(key))

TtlKey(key) ==
    IF KeyRaises(key) THEN RaiseTypeError ELSE Ttl(GenerateKey(key))

\* A cache of one entry, its callers passing keys of every kind, within one
\* reading of the clock.
KeyValues == {"v1"}

KeyInit ==
    /\ cache = <<>>
    /\ order = <<>>
    /\ max_size = 1
    /\ default_ttl \in DefaultTtls
    /\ now = 0
    /\ sweeper = "running"
    /\ lock = "free"
    /\ th = [t \in Threads |-> Idle]
    /\ recency = <<>>
    /\ last = Call("init", "", {})
    /\ raised = {}
    /\ ManagerInit
    /\ APICacheEmpty
    /\ ServiceIdle
    /\ EstimatorIdle

KeyNext ==
    \/ \E key \in RawKeys, v \in KeyValues : SetKey(key, v)
    \/ \E key \in RawKeys : GetKey(key, Default)
    \/ \E key \in RawKeys : DeleteKey(key)
    \/ \E key \in RawKeys : ExistsKey(key)
    \/ \E key \in RawKeys : TtlKey(key)

KeySpec == KeyInit /\ [][KeyNext]_vars

\* ------------------------------------------------------------------ CacheManager
\* The most caches constructed in a run (the program sets no limit).
MaxInstances == 3

CacheNames == {"default", "n1"}

\* The state that the manager and the caches it hands out cannot touch.
unmanaged == <<cache, order, max_size, default_ttl, now, sweeper, lock, th, recency, last,
               raised, estimator, api, service>>

\* MemoryCache(): one more object, empty.
Constructed == Append(instances, EmptyCache)

\* get_cache(name): if name not in self.caches: self.caches[name] =
\* MemoryCache(); return self.caches[name]
GetCacheReturn(name) == caches[name]

GetCache(name) ==
    /\ name \notin DOMAIN caches => Len(instances) < MaxInstances
    /\ IF name \notin DOMAIN caches
       THEN /\ instances' = Constructed
            /\ caches' = Store(caches, name, Len(instances) + 1)
       ELSE UNCHANGED <<caches, instances>>
    /\ UNCHANGED <<default_cache, mth, unmanaged>>

\* create_cache(name, default_ttl, max_size): a new cache under the name,
\* whatever was registered under it.
CreateCache(name) ==
    /\ Len(instances) < MaxInstances
    /\ instances' = Constructed
    /\ caches' = Store(caches, name, Len(instances) + 1)
    /\ UNCHANGED <<default_cache, mth, unmanaged>>

\* What delete_cache returns in the current state.
DeleteCacheReturn(name) == name \in DOMAIN caches

\* delete_cache, had it unregistered the cache without clearing it.
DeleteCacheUncleared(name) ==
    /\ IF name \in DOMAIN caches
       THEN /\ caches' = Drop(caches, name)
            /\ UNCHANGED instances
       ELSE UNCHANGED <<caches, instances>>
    /\ UNCHANGED <<default_cache, mth, unmanaged>>

\* delete_cache(name): self.caches[name].clear(); del self.caches[name]
DeleteCache(name) ==
    /\ IF name \in DOMAIN caches
       THEN /\ instances' = [instances EXCEPT ![caches[name]] = EmptyCache]
            /\ caches' = Drop(caches, name)
       ELSE UNCHANGED <<caches, instances>>
    /\ UNCHANGED <<default_cache, mth, unmanaged>>

\* The caches the manager reaches: the registered ones and the default cache.
Registered == {caches[n] : n \in DOMAIN caches}
Managed == Registered \cup {default_cache}

\* clear_all: cache.clear() for every registered cache, then the default one.
ClearAll ==
    /\ instances' = [i \in DOMAIN instances |->
                        IF i \in Managed THEN EmptyCache ELSE instances[i]]
    /\ UNCHANGED <<caches, default_cache, mth, unmanaged>>

\* MemoryCache.stats() of a cache: total_items and expired_items.
Stats(c) ==
    [total_items |-> Cardinality({k \in InstanceKeys : c[k] # "absent"}),
     expired_items |-> Cardinality({k \in InstanceKeys : c[k] = "expired"})]

\* get_all_stats: stats['default'] = self.default_cache.stats(), then
\* stats[name] = cache.stats() for every registered name.
GetAllStatsReturn ==
    [n \in {"default"} \cup DOMAIN caches |->
        IF n \in DOMAIN caches THEN Stats(instances[caches[n]])
        ELSE Stats(instances[default_cache])]

GetAllStats == UNCHANGED vars

\* MemoryCache.cleanup_expired() of a cache: the cache after it, and the
\* number of entries removed.
Cleaned(c) == [k \in InstanceKeys |-> IF c[k] = "expired" THEN "absent" ELSE c[k]]
Removed(c) == Cardinality({k \in InstanceKeys : c[k] = "expired"})

\* cleanup_all: results['default'] = self.default_cache.cleanup_expired(),
\* then results[name] = cache.cleanup_expired() for every registered name.
\* A cache the default cache also registered under a name is cleaned before
\* its second result is taken.
CleanupAllReturn ==
    [n \in {"default"} \cup DOMAIN caches |->
        IF n \in DOMAIN caches
        THEN IF caches[n] = default_cache THEN 0 ELSE Removed(instances[caches[n]])
        ELSE Removed(instances[default_cache])]

CleanupAll ==
    /\ instances' = [i \in DOMAIN instances |->
                        IF i \in Managed THEN Cleaned(instances[i]) ELSE instances[i]]
    /\ UNCHANGED <<caches, default_cache, mth, unmanaged>>

\* A caller sets a key in a cache it was handed.
InstanceSet(i, k) ==
    /\ instances' = [instances EXCEPT ![i][k] = "live"]
    /\ UNCHANGED <<caches, default_cache, mth, unmanaged>>

\* The ttl of an entry of a cache runs out.
InstanceExpire(i, k) ==
    /\ instances[i][k] = "live"
    /\ instances' = [instances EXCEPT ![i][k] = "expired"]
    /\ UNCHANGED <<caches, default_cache, mth, unmanaged>>

ManagerNext ==
    \/ \E name \in CacheNames : GetCache(name)
    \/ \E name \in CacheNames : CreateCache(name)
    \/ \E name \in CacheNames : DeleteCache(name)
    \/ ClearAll
    \/ GetAllStats
    \/ CleanupAll
    \/ \E i \in DOMAIN instances, k \in InstanceKeys : InstanceSet(i, k)
    \/ \E i \in DOMAIN instances, k \in InstanceKeys : InstanceExpire(i, k)

ManagerSpec == Init /\ [][ManagerNext]_vars

\* get_cache statement by statement, called by several threads: the registry
\* has no lock.
\* The thread enters get_cache(name).
BeginGetCache(t, name) ==
    /\ mth[t].pc \in {"idle", "done"}
    /\ mth' = [mth EXCEPT ![t] = [ManagerIdle EXCEPT !.pc = "check", !.name = name]]
    /\ UNCHANGED <<caches, default_cache, instances, unmanaged>>

\* if name not in self.caches:
CheckName(t) ==
    /\ mth[t].pc = "check"
    /\ mth' = [mth EXCEPT ![t].pc = IF mth[t].name \in DOMAIN caches
                                    THEN "return" ELSE "construct"]
    /\ UNCHANGED <<caches, default_cache, instances, unmanaged>>

\* MemoryCache(): the right-hand side of the assignment.
Construct(t) ==
    /\ mth[t].pc = "construct"
    /\ Len(instances) < MaxInstances
    /\ instances' = Constructed
    /\ mth' = [mth EXCEPT ![t].pc = "store", ![t].new = Len(instances) + 1]
    /\ UNCHANGED <<caches, default_cache, unmanaged>>

\* self.caches[name] = the cache just constructed.
StoreName(t) ==
    /\ mth[t].pc = "store"
    /\ caches' = Store(caches, mth[t].name, mth[t].new)
    /\ mth' = [mth EXCEPT ![t].pc = "return"]
    /\ UNCHANGED <<default_cache, instances, unmanaged>>

\* return self.caches[name]
ReturnCache(t) ==
    /\ mth[t].pc = "return"
    /\ mth' = [mth EXCEPT ![t].pc = "done", ![t].ret = GetCacheReturn(mth[t].name)]
    /\ UNCHANGED <<caches, default_cache, instances, unmanaged>>

\* The thread sets a key in the cache get_cache returned to it.
UseSet(t, k) ==
    /\ mth[t].pc = "done"
    /\ InstanceSet(mth[t].ret, k)

\* What get on the cache returned to the thread finds under a key.
UseGetReturn(t, k) == instances[mth[t].ret][k]

ManagerThreadNext ==
    \/ \E t \in ManagerThreads, name \in CacheNames : BeginGetCache(t, name)
    \/ \E t \in ManagerThreads :
          \/ CheckName(t)
          \/ Construct(t)
          \/ StoreName(t)
          \/ ReturnCache(t)
    \/ \E t \in ManagerThreads, k \in InstanceKeys : UseSet(t, k)

ManagerThreadSpec == Init /\ [][ManagerThreadNext]_vars

\* clear_all, get_all_stats and cleanup_all statement by statement, while
\* other threads register and remove named caches. The loops run on a
\* dictionary iterator: it is made with the number of entries the registry
\* has (used), goes through the entries in insertion order from where it
\* stands (pos: a cache constructed later was registered later), and each
\* call of next raises RuntimeError ("dictionary changed size during
\* iteration") when the registry no longer has that number of entries.
\* seen and kept are history: the (name, cache) entries the loop has treated,
\* and the entries registered at every step of the call so far.
IterationOps == {"clear_all", "get_all_stats", "cleanup_all"}

Entries == {<<n, caches[n]>> : n \in DOMAIN caches}

\* What the method does to a cache it reaches.
Treated(op, c) ==
    CASE op = "clear_all" -> EmptyCache
      [] op = "cleanup_all" -> Cleaned(c)
      [] OTHER -> c

\* The thread enters the method: get_all_stats and cleanup_all treat the
\* default cache first; then iter(self.caches.values()) or
\* iter(self.caches.items()).
BeginIteration(t, op) ==
    /\ mth[t].pc \in {"idle", "done", "raised"}
    /\ mth' = [mth EXCEPT ![t] = [ManagerIdle EXCEPT !.pc = "iter", !.op = op,
                                     !.used = Cardinality(DOMAIN caches),
                                     !.kept = Entries]]
    /\ instances' = IF op = "clear_all" THEN instances
                    ELSE [instances EXCEPT ![default_cache] = Treated(op, @)]
    /\ UNCHANGED <<caches, default_cache, unmanaged>>

\* next(iterator) finds that the dictionary changed size.
ChangedSize(t) == Cardinality(DOMAIN caches) # mth[t].used

\* One turn of the loop: next(iterator), then the body on the cache it gave;
\* when the iterator is exhausted, clear_all clears the default cache and the
\* method returns.
IterationStep(t) ==
    LET ahead == {e \in Entries : e[2] > mth[t].pos}
        entry == CHOOSE e \in ahead : \A f \in ahead : e[2] <= f[2]
    IN  /\ mth[t].pc = "iter"
        /\ IF ChangedSize(t)
           THEN /\ mth' = [mth EXCEPT ![t].pc = "raised"]
                /\ raised' = raised \cup {"RuntimeError"}
                /\ UNCHANGED instances
           ELSE IF ahead = {}
           THEN /\ mth' = [mth EXCEPT ![t].pc = "done",
                                      ![t].kept = @ \cap Entries]
                /\ instances' = IF mth[t].op = "clear_all"
                                THEN [instances EXCEPT ![default_cache] = EmptyCache]
                                ELSE instances
                /\ UNCHANGED raised
           ELSE /\ mth' = [mth EXCEPT ![t].pos = entry[2],
                                      ![t].seen = @ \cup {entry},
                                      ![t].kept = @ \cap Entries]
                /\ instances' = [instances EXCEPT ![entry[2]] = Treated(mth[t].op, @)]
                /\ UNCHANGED raised
        /\ UNCHANGED <<caches, default_cache, keyless, estimator, api, service>>

\* One thread runs the three methods; the registry is changed by the others.
IterationThreads == {"m1"}

RegistryNext ==
    \/ \E t \in IterationThreads, op \in IterationOps : BeginIteration(t, op)
    \/ \E t \in IterationThreads : IterationStep(t)
    \/ \E name \in CacheNames : GetCache(name)
    \/ \E name \in CacheNames : DeleteCache(name)
    \/ \E i \in DOMAIN instances, k \in InstanceKeys : InstanceSet(i, k)
    \/ \E i \in DOMAIN instances, k \in InstanceKeys : InstanceExpire(i, k)

RegistrySpec == Init /\ [][RegistryNext]_vars

\* ------------------------------------------------------------------ get_economic_data
\* The latest year the clock reaches.
MaxYear == 2027

\* The arguments of the calls: a country with an ISO code and in the sample
\* table, one with an ISO code only, one in the sample table only, one in
\* neither; region "" is region=None.
Names == {"Comoros", "Fiji", "Jamaica", "Ruritania"}
Populations == {0, 900000, 60000000}
Regions == {"", "Europe", "Atlantis"}

\* WorldBankService.COUNTRY_ISO_MAP, the countries of Names.
COUNTRY_ISO_MAP == [Comoros |-> "KM", Fiji |-> "FJ"]

\* get_country_iso_code: "" is None.
GetCountryIsoCode(country_name) ==
    IF country_name \in DOMAIN COUNTRY_ISO_MAP THEN COUNTRY_ISO_MAP[country_name] ELSE ""

\* The keys of the indicators, in the order of the loop.
Indicators ==
    <<"gdp", "gdp_per_capita", "life_expectancy", "internet_penetration", "population">>

\* What the provider answers for one indicator:
\*   value      a list whose second element holds a non-null value
\*   empty      no second element, or no non-null value in it
\*   error      requests.RequestException: no connection, timeout, error status
\*   malformed  JSON of another shape (an object, an item without 'value'):
\*              the code raises KeyError or TypeError on it
Response(kind, value) == [kind |-> kind, value |-> value]
NoValue == {Response(kind, Zero) : kind \in {"empty", "error", "malformed"}}

Responses ==
    {[gdp |-> g, gdp_per_capita |-> c, life_expectancy |-> l,
      internet_penetration |-> i, population |-> p] :
        g \in NoValue \cup {Response("value", Num(11, 100000000, 1))},
        c \in NoValue \cup {Response("value", Amount(4000)),
                            Response("value", Amount(60000))},
        l \in NoValue \cup {Response("value", Scaled(192000000))},
        i \in NoValue \cup {Response("value", Scaled(24900000))},
        p \in NoValue \cup {Response("value", Amount(850000))}}

Queries ==
    {[name |-> n, population |-> p, region |-> r, responses |-> a] :
        n \in Names, p \in Populations, r \in Regions, a \in Responses}

\* WorldBankService.get_economic_data raises: an exception that is not a
\* RequestException leaves the loop and the function.
WorldBankRaises(country_name, responses) ==
    /\ GetCountryIsoCode(country_name) # ""
    /\ \E n \in 1..Len(Indicators) : responses[Indicators[n]].kind = "malformed"

\* WorldBankService.get_economic_data when it returns: data, the values of
\* the indicators that gave one; the empty mapping is None (both are falsy).
WorldBankData(country_name, responses) ==
    IF GetCountryIsoCode(country_name) = "" THEN <<>>
    ELSE [key \in {Indicators[n] : n \in 1..Len(Indicators)}
                     \cap {k \in DOMAIN responses : responses[k].kind = "value"}
            |-> responses[key].value]

\* No clamp: the value as computed.
Unclamped(low, high, x) == x

\* min(high, max(low, x))
Clamp(low, high, x) == IF x < low THEN low ELSE IF x > high THEN high ELSE x

\* The formula, had its piece above 5000 been written with the wrong sign.
HdiFallingAbove5000(x) ==
    IF x > 50000 THEN 2700000 + 3 * (x - 50000)
    ELSE IF x > 20000 THEN 2100000 + 30 * (x - 20000)
    ELSE IF x > 5000 THEN 1500000 - 100 * (x - 5000)
    ELSE 900000 + 300 * x

\* The HDI estimated from a GDP per capita x, before it is clamped, in units
\* of 1/Scale.
HdiFromGdpPerCapita(x) ==
    IF x > 50000 THEN 2700000 + 3 * (x - 50000)
    ELSE IF x > 20000 THEN 2100000 + 30 * (x - 20000)
    ELSE IF x > 5000 THEN 1500000 + 100 * (x - 5000)
    ELSE 900000 + 300 * x

\* d.get(key, 0)
GetOr0(d, key) == IF key \in DOMAIN d THEN d[key] ELSE Zero

\* The record of the live tier: the hdi is estimated from gdp_per_capita
\* (the provider is asked for no hdi), and a missing value is 0.
LiveRecord(world_bank_data) ==
    [gdp |-> GetOr0(world_bank_data, "gdp"),
     gdp_per_capita |-> GetOr0(world_bank_data, "gdp_per_capita"),
     hdi |-> IF "gdp_per_capita" \in DOMAIN world_bank_data
             THEN Scaled(Clamp(900000, 2970000,
                      HdiFromGdpPerCapita(world_bank_data["gdp_per_capita"].m)))
             ELSE Zero,
     life_expectancy |-> GetOr0(world_bank_data, "life_expectancy"),
     internet_penetration |-> GetOr0(world_bank_data, "internet_penetration"),
     data_source |-> "world_bank"]

\* sample_data, the countries of Names.
sample_data ==
    [Comoros |-> [gdp |-> Num(12, 100000000, 1), hdi |-> Scaled(1662000),
                  life_expectancy |-> Scaled(192900000),
                  internet_penetration |-> Scaled(24000000)],
     Jamaica |-> [gdp |-> Num(150, 100000000, 1), hdi |-> Scaled(2202000),
                  life_expectancy |-> Scaled(223500000),
                  internet_penetration |-> Scaled(165000000)]]

\* A sample record whose gdp_per_capita is not divided by the population.
SampleRecordUndivided(country_name, population) ==
    [gdp |-> sample_data[country_name].gdp,
     gdp_per_capita |-> sample_data[country_name].gdp,
     hdi |-> sample_data[country_name].hdi,
     life_expectancy |-> sample_data[country_name].life_expectancy,
     internet_penetration |-> sample_data[country_name].internet_penetration,
     data_source |-> "sample"]

\* The record of the sample tier: gdp_per_capita = gdp / population.
SampleRecord(country_name, population) ==
    LET data == sample_data[country_name]
    IN  [gdp |-> data.gdp,
         gdp_per_capita |-> IF population > 0
                            THEN Num(data.gdp.m, data.gdp.k, population)
                            ELSE Zero,
         hdi |-> data.hdi,
         life_expectancy |-> data.life_expectancy,
         internet_penetration |-> data.internet_penetration,
         data_source |-> "sample"]

base_gdp_by_region ==
    ("Europe" :> 25000) @@ ("North America" :> 30000) @@ ("Asia" :> 8000) @@
    ("South America" :> 12000) @@ ("Africa" :> 3000) @@ ("Oceania" :> 20000) @@
    ("Antarctic" :> 1000)

\* region_key = region if region else 'Asia'; base_gdp_by_region.get(region_key, 8000)
BaseGdpPerCapita(region) ==
    LET region_key == IF region # "" THEN region ELSE "Asia"
    IN  IF region_key \in DOMAIN base_gdp_by_region
        THEN base_gdp_by_region[region_key] ELSE 8000

\* A seed that changes with the clock.
SeedOfTheYear(country_name) == [hi |-> year, lo |-> 0]

\* int(hashlib.md5(country_name.encode()).hexdigest()[:8], 16), the 32 bits
\* as two halves of 16: hi * 65536 + lo.
CountryHash(country_name) ==
    CASE country_name = "Comoros" -> [hi |-> 16948, lo |-> 53625]
      [] country_name = "Fiji" -> [hi |-> 21936, lo |-> 50388]
      [] country_name = "Jamaica" -> [hi |-> 6877, lo |-> 11956]
      [] country_name = "Ruritania" -> [hi |-> 50657, lo |-> 42517]
      [] country_name = "B" -> [hi |-> 40286, lo |-> 54904]
      [] country_name = "Country 231" -> [hi |-> 58939, lo |-> 58495]

\* country_hash % n
HashMod(h, n) == ((h.hi % n) * (65536 % n) + (h.lo % n)) % n

\* variation_factor = 0.5 + (country_hash % 100) / 100, in hundredths.
VariationFactor(country_name) == 50 + HashMod(CountryHash(country_name), 100)

\* The factor with thresholds that include their bound.
PopulationFactorFrom(population) ==
    IF population >= 100000000 THEN 6
    ELSE IF population >= 50000000 THEN 8
    ELSE IF population >= 10000000 THEN 10
    ELSE IF population >= 1000000 THEN 12
    ELSE 14

\* population_factor, in tenths.
PopulationFactor(population) ==
    IF population > 100000000 THEN 6
    ELSE IF population > 50000000 THEN 8
    ELSE IF population > 10000000 THEN 10
    ELSE IF population > 1000000 THEN 12
    ELSE 14

\* estimated_gdp_per_capita = base * variation_factor * population_factor
\* (the bases are multiples of 1000: the division is exact).
EstimatedGdpPerCapita(country_name, population, region) ==
    (BaseGdpPerCapita(region) * VariationFactor(country_name)
        * PopulationFactor(population)) \div 1000

\* The halfway values that round() sends up. Where the exact value lies
\* halfway between two multiples of the step, the floating point operand of
\* Python lies off it, above for these values and below for the others that
\* the arguments of the model produce.
RoundsUp ==
    {184350000, 196950000, 203250000, 207450000, 215850000, 217950000,
     239250000, 243450000}

\* round(x, ndigits) on a number of units: the nearest multiple of step.
Round(u, step) ==
    LET q == u \div step
        r == u % step
    IN  IF 2 * r < step \/ (2 * r = step /\ u \notin RoundsUp)
        THEN q * step ELSE (q + 1) * step

\* hdi_variation = (country_hash % 20 - 10) / 1000, in units of 1/Scale.
HdiVariation(country_hash) == 3000 * (HashMod(country_hash, 20) - 10)

\* life_variation = (country_hash % 10 - 5), in units of 1/Scale.
LifeVariation(country_hash) == 3000000 * (HashMod(country_hash, 10) - 5)

\* internet_variation = (country_hash % 15 - 7.5), in units of 1/Scale.
InternetVariation(country_hash) == 3000000 * HashMod(country_hash, 15) - 22500000

\* The record of the estimation tier.
EstimatedRecord(country_name, population, region) ==
    LET country_hash == CountryHash(country_name)
        estimated_gdp_per_capita == EstimatedGdpPerCapita(country_name, population, region)
        base_hdi == HdiFromGdpPerCapita(estimated_gdp_per_capita)
        estimated_hdi == Clamp(900000, 2970000, base_hdi + HdiVariation(country_hash))
        estimated_life_expectancy ==
            Clamp(150000000, 255000000,
                  150000000 + 35 * estimated_hdi + LifeVariation(country_hash))
        estimated_internet ==
            Clamp(15000000, 285000000,
                  100 * estimated_hdi + InternetVariation(country_hash))
    IN  [gdp |-> IF population > 0 THEN Num(estimated_gdp_per_capita, population, 1)
                 ELSE Zero,
         gdp_per_capita |-> Amount(estimated_gdp_per_capita),
         hdi |-> Scaled(Round(estimated_hdi, 3000)),
         life_expectancy |-> Scaled(Round(estimated_life_expectancy, 300000)),
         internet_penetration |-> Scaled(Round(estimated_internet, 300000)),
         data_source |-> "estimated"]

\* get_economic_data(country_name, population, region), the provider
\* answering with responses.
GetEconomicData(country_name, population, region, responses) ==
    IF WorldBankRaises(country_name, responses) THEN Raised("KeyError")
    ELSE LET world_bank_data == WorldBankData(country_name, responses)
         IN  IF DOMAIN world_bank_data # {} THEN Returned(LiveRecord(world_bank_data))
             ELSE IF country_name \in DOMAIN sample_data
                  THEN Returned(SampleRecord(country_name, population))
                  ELSE Returned(EstimatedRecord(country_name, population, region))

\* A call with the query; at is the year of the call.
Estimate ==
    LET outcome == [at |-> year] @@
                   GetEconomicData(query.name, query.population, query.region,
                                   query.responses)
    IN  /\ result' = outcome
        /\ first' = IF first.called THEN first ELSE outcome
        /\ UNCHANGED <<query, year, keyless, raised, manager, api, service>>

\* A call for another country in between: the function keeps nothing.
EstimateOther(country_name) ==
    /\ GetEconomicData(country_name, query.population, query.region,
                       query.responses).called
    /\ UNCHANGED vars

NewYear ==
    /\ year < MaxYear
    /\ year' = year + 1
    /\ UNCHANGED <<query, first, result, keyless, raised, manager, api, service>>

EconInit ==
    /\ cache = <<>>
    /\ order = <<>>
    /\ max_size = 1
    /\ default_ttl \in DefaultTtls
    /\ now = 0
    /\ sweeper = "running"
    /\ lock = "free"
    /\ th = [t \in Threads |-> Idle]
    /\ recency = <<>>
    /\ last = Call("init", "", {})
    /\ raised = {}
    /\ ManagerInit
    /\ APICacheEmpty
    /\ ServiceIdle
    /\ query \in Queries
    /\ year = ThisYear
    /\ first = [at |-> ThisYear] @@ NotCalled
    /\ result = [at |-> ThisYear] @@ NotCalled

EconNext ==
    \/ Estimate
    \/ \E country_name \in Names : EstimateOther(country_name)
    \/ NewYear

EconSpec == EconInit /\ [][EconNext]_vars

\* ------------------------------------------------------------------ get_economic_data, tier by tier
\* The arguments that reach the ends of each tier's formulas: a name whose
\* seed is 0 modulo 100, 20, 10 and 15 and one whose seed is the largest
\* residue of each (neither has an ISO code or a sample entry), the
\* populations on both sides of every threshold, every region of the table.
TierNames == Names \cup {"B", "Country 231"}
TierPopulations ==
    {0, 1, 900000, 1000000, 1000001, 10000000, 10000001, 50000000, 50000001,
     100000000, 100000001}
TierRegions == DOMAIN base_gdp_by_region \cup {"", "Atlantis"}

\* The provider gives no value: every request comes back empty, or fails.
Silent(kind) == [key \in {Indicators[n] : n \in 1..Len(Indicators)} |-> Response(kind, Zero)]

\* The provider gives a value for one indicator only.
Only(key, value) == [Silent("empty") EXCEPT ![key] = Response("value", value)]

\* The values of gdp_per_capita the provider gives: on both sides of every
\* threshold of the HDI formula and beyond its clamp.
GdpPerCapitaValues == {0, 4000, 5000, 10000, 20000, 25000, 50000, 60000, 200000}

TierResponses ==
    {Silent("empty"), Silent("error"),
     Only("gdp", Num(42, 100000000, 1000)), Only("population", Amount(850000)),
     [Only("gdp", Num(42, 100000000, 1000)) EXCEPT
         !["gdp_per_capita"] = Response("value", Amount(50000))]}
    \cup {Only("gdp_per_capita", Amount(x)) : x \in GdpPerCapitaValues}

TierInit ==
    /\ cache = <<>>
    /\ order = <<>>
    /\ max_size = 1
    /\ default_ttl \in DefaultTtls
    /\ now = 0
    /\ sweeper = "running"
    /\ lock = "free"
    /\ th = [t \in Threads |-> Idle]
    /\ recency = <<>>
    /\ last = Call("init", "", {})
    /\ raised = {}
    /\ ManagerInit
    /\ APICacheEmpty
    /\ ServiceIdle
    /\ query \in {[name |-> n, population |-> p, region |-> r, responses |-> a] :
                     n \in TierNames, p \in TierPopulations, r \in TierRegions,
                     a \in TierResponses}
    /\ year = ThisYear
    /\ first = [at |-> ThisYear] @@ NotCalled
    /\ result = [at |-> ThisYear] @@ NotCalled

TierSpec == TierInit /\ [][EconNext]_vars

\* ------------------------------------------------------------------ APICache
\* The clock counts half hours; it stops at MaxClock.
MaxClock == 4

\* timedelta(hours=1), in half hours.
Hour == 2

\* datetime.now(): the local time of the machine, which is the time that has
\* passed plus the shift of the local time (daylight saving time).
DatetimeNow == clock.real + clock.shift

APIKeys == {"all_countries", "test_key"}
APIData == {"d1", "d2"}
None == "None"

\* What APICache.get returns in the current state.
APIGetReturn(key) ==
    IF key \in DOMAIN api_cache /\ DatetimeNow - api_cache[key].timestamp < Hour
    THEN api_cache[key].data
    ELSE None

\* APICache.get(key): a hit leaves the cache as it is, a stale entry is
\* deleted.
APIGet(key) ==
    /\ IF key \in DOMAIN api_cache /\ ~(DatetimeNow - api_cache[key].timestamp < Hour)
       THEN api_cache' = Drop(api_cache, key)
       ELSE UNCHANGED api_cache
    /\ UNCHANGED <<clock, keyless, raised, manager, estimator, service>>

\* APICache.set(key, data): _cache[key] = (data, datetime.now()). stored is
\* history: the time that had passed when the entry was stored.
APISet(key, data) ==
    /\ api_cache' = Store(api_cache, key,
                          [data |-> data, timestamp |-> DatetimeNow,
                           stored |-> clock.real])
    /\ UNCHANGED <<clock, keyless, raised, manager, estimator, service>>

\* APICache.clear()
APIClear ==
    /\ api_cache' = <<>>
    /\ UNCHANGED <<clock, keyless, raised, manager, estimator, service>>

\* Half an hour passes.
HalfHour ==
    /\ clock.real < MaxClock
    /\ clock' = [clock EXCEPT !.real = @ + 1]
    /\ UNCHANGED <<api_cache, keyless, raised, manager, estimator, service>>

\* Daylight saving time ends: the local time is set back one hour.
SetBack ==
    /\ clock.shift = 0
    /\ clock' = [clock EXCEPT !.shift = -Hour]
    /\ UNCHANGED <<api_cache, keyless, raised, manager, estimator, service>>

\* Daylight saving time begins: the local time is set forward one hour.
SetForward ==
    /\ clock.shift = -Hour
    /\ clock' = [clock EXCEPT !.shift = 0]
    /\ UNCHANGED <<api_cache, keyless, raised, manager, estimator, service>>

APINext ==
    \/ \E key \in APIKeys : APIGet(key)
    \/ \E key \in APIKeys, data \in APIData : APISet(key, data)
    \/ APIClear
    \/ HalfHour
    \/ SetBack
    \/ SetForward

APISpec == Init /\ [][APINext]_vars

\* ------------------------------------------------------------------ CacheDecorator
\* A function f wrapped by cache_result(ttl=DecoratorTtl) (a CacheDecorator on
\* the cache, with the key prefix ""), called with one positional argument.
FuncArgs == {"1", "2", "3"}
DecoratorTtl == 1

\* What f returns: a value for some arguments, None for others.
Func(args) == IF args = "2" THEN None ELSE "v1"

\* The key of a call: _generate_key of the mapping {'function', 'prefix',
\* 'args', 'kwargs'}, its items sorted.
CacheKey(args) ==
    Md5("[[\"args\", [" \o args \o "]], [\"function\", \"f\"], "
            \o "[\"kwargs\", {}], [\"prefix\", \"\"]]")

\* wrapper, had it told a stored None from a miss (a sentinel as the default
\* of get).
IsHitWhenStored(key, found) == key \in DOMAIN cache /\ ~IsExpired(cache[key], now)

\* if result is not None
IsHit(key, found) == found # None

\* wrapper(*args): result = self.cache.get(cache_key); a result that is not
\* None is returned; otherwise func runs and self.cache.set(cache_key, result,
\* self.ttl) stores what it returned.
Wrapper(args) ==
    LET key == CacheKey(args)
        found == GetReturn(key, None)
        \* the cache once get has returned
        got == IF key \in DOMAIN cache
               THEN IF IsExpired(cache[key], now)
                    THEN [cache |-> Drop(cache, key), order |-> Without(order, key),
                          recency |-> Without(recency, key)]
                    ELSE [cache |-> [cache EXCEPT ![key] = Touch(@, now)],
                          order |-> order,
                          recency |-> Append(Without(recency, key), key)]
               ELSE [cache |-> cache, order |-> order, recency |-> recency]
        \* the cache once set has returned
        ev == IF Len(got.order) >= max_size /\ key \notin DOMAIN got.cache
              THEN EvictLru(got.cache, got.order)
              ELSE [cache |-> got.cache, order |-> got.order]
        item == CacheItem(Func(args), EffectiveTtl(TRUE, DecoratorTtl), now)
    IN  /\ key \in DOMAIN cache /\ ~IsExpired(cache[key], now)
              => cache[key].access_count < MaxAccess
        /\ IF IsHit(key, found)
           THEN /\ cache' = got.cache
                /\ order' = got.order
                /\ recency' = got.recency
                /\ answer' = [called |-> TRUE, args |-> args, value |-> found,
                              executed |-> FALSE]
           ELSE /\ cache' = Store(ev.cache, key, item)
                /\ order' = IF key \in DOMAIN ev.cache THEN ev.order
                            ELSE Append(ev.order, key)
                /\ recency' = Append(SelectSeq(got.recency,
                                  LAMBDA x : x \in DOMAIN ev.cache /\ x # key), key)
                /\ answer' = [called |-> TRUE, args |-> args, value |-> Func(args),
                              executed |-> TRUE]
        /\ last' = Call("wrapper", key, (DOMAIN cache) \ (DOMAIN cache'))
        /\ UNCHANGED <<max_size, default_ttl, now, sweeper, lock, th, raised,
                       manager, estimator, api, countries, comparisons, response>>

DecoratorNext ==
    \/ \E args \in FuncArgs : Wrapper(args)
    \/ Clear
    \/ Tick

DecoratorSpec == Init /\ [][DecoratorNext]_vars

\* ------------------------------------------------------------------ CompareResource
\* GET /api/compare?c1=..&c2=..: a parameter is absent (None), empty, or a
\* name. No more than MaxComparisons rows are added to the comparisons table
\* (the program sets no limit). The records of the catalog are the provider's,
\* with the fields asked for, and the database answers: the handler's except
\* branch (status 500) is not reached.
MaxComparisons == 2

CompareNames == {"Fiji", "fij", "Atlantis", "Test Country"}
CompareArgs == {None, ""} \cup CompareNames

\* The rows the countries table may hold when the requests begin.
StoredNames == {"Fiji", "Test Country"}

\* RestCountriesService.get_country_details(name): the records the catalog
\* finds for the name, of which the first is used (its common name is kept
\* here), an empty list, or None when the request failed (the provider
\* answers a name it does not know with status 404).
NotFound == [kind |-> "none", common |-> ""]
GetCountryDetails(name) ==
    CASE name = "Fiji" -> [kind |-> "found", common |-> "Fiji"]
      [] name = "fij" -> [kind |-> "found", common |-> "Fiji"]
      [] name = "Test Country" -> [kind |-> "empty", common |-> ""]
      [] OTHER -> NotFound

\* The parameter test, had it asked for one of the two names only.
MissingBoth(c1, c2) == c1 \in {None, ""} /\ c2 \in {None, ""}

\* if not country1_name or not country2_name
Missing(c1, c2) == c1 \in {None, ""} \/ c2 \in {None, ""}

\* Country.query.filter_by(name=name).first() on the table as it is when the
\* request begins.
InDatabase(name) == name \in countries

\* The name is neither in the countries table nor found by the catalog.
Unknown(name) == ~InDatabase(name) /\ GetCountryDetails(name).kind # "found"

\* get_or_create_country(parse_country_data(data[0])): a row is added under
\* the common name unless there is one.
Created(rows, name) ==
    IF InDatabase(name) THEN rows ELSE rows \cup {GetCountryDetails(name).common}

Answer(status, c1, c2) == [status |-> status, c1 |-> c1, c2 |-> c2]

Compare(c1, c2) ==
    /\ Len(comparisons) < MaxComparisons
    /\ IF Missing(c1, c2)
       THEN /\ response' = Answer(400, c1, c2)
            /\ UNCHANGED <<countries, comparisons>>
       ELSE IF Unknown(c1)
       THEN /\ response' = Answer(404, c1, c2)
            /\ UNCHANGED <<countries, comparisons>>
       ELSE IF Unknown(c2)
       THEN /\ response' = Answer(404, c1, c2)
            /\ countries' = Created(countries, c1)
            /\ UNCHANGED comparisons
       ELSE /\ response' = Answer(200, c1, c2)
            /\ countries' = Created(Created(countries, c1), c2)
            /\ comparisons' = Append(comparisons,
                                  [country1_name |-> c1, country2_name |-> c2])
    /\ UNCHANGED <<keyless, raised, manager, estimator, api, answer>>

CompareInit ==
    /\ cache = <<>>
    /\ order = <<>>
    /\ max_size \in MaxSizes
    /\ default_ttl \in DefaultTtls
    /\ now = 0
    /\ sweeper = "running"
    /\ lock = "free"
    /\ th = [t \in Threads |-> Idle]
    /\ recency = <<>>
    /\ last = Call("init", "", {})
    /\ raised = {}
    /\ ManagerInit
    /\ APICacheEmpty
    /\ EstimatorIdle
    /\ answer = NoAnswer
    /\ countries \in SUBSET StoredNames
    /\ comparisons = <<>>
    /\ response = NoResponse

CompareNext == \E c1, c2 \in CompareArgs : Compare(c1, c2)

CompareSpec == CompareInit /\ [][CompareNext]_vars

\* ------------------------------------------------------------------ claims
\* The expiry rule as the specification states it:
\* isExpired = ttlSeconds > 0 AND now > createdAt + ttlSeconds.
StatedExpired(item, t) == item.ttl > 0 /\ t > item.created_at + item.ttl

\* Position of a present key in a sequence of keys.
Pos(seq, k) == CHOOSE i \in 1..Len(seq) : seq[i] = k

\* A step of set(k, v, ttl) (the tests of last' come first because they are
\* the cheap ones; Set implies them).
SetStep(k, v, given, ttl) ==
    /\ last'.op = "set" /\ last'.key = k
    /\ last'.ttl_given = given /\ last'.ttl = ttl
    /\ Set(k, v, given, ttl)

\* A step of set on key k, whatever its other arguments (Set records its ttl
\* argument in last', so no other ttl argument can match the step).
IsSet(k) ==
    /\ last'.op = "set" /\ last'.key = k
    /\ \E v \in Values : Set(k, v, last'.ttl_given, last'.ttl)

\* C1: for every max_size, 0 included, the number of entries is at most
\* max_size whenever a set has completed.
C1_SizeAtMostMaxSize == Cardinality(DOMAIN cache) <= max_size

\* C2: get and exists never report an expired entry: on an entry with ttl > 0
\* and now > created_at + ttl, get returns the default, exists returns false,
\* and the call removes the entry.
C2_NeverReportsExpired ==
    [][\A k \in DOMAIN cache :
          StatedExpired(cache[k], now) =>
              /\ GetReturn(k, Default) = Default
              /\ ExistsReturn(k) = FALSE
              /\ Get(k, Default) => k \notin DOMAIN cache'
              /\ Exists(k) => k \notin DOMAIN cache']_vars

\* A get has just removed the expired entry of its key.
C2_Witness == last.op = "get" /\ last.removed = {last.key}

\* C3: a set of a new key into a cache holding max_size >= 1 entries removes
\* exactly one entry, the first in iteration order among those of minimal
\* last_accessed, and changes no other entry.
StatedLru(x) ==
    /\ x \in DOMAIN cache
    /\ \A y \in DOMAIN cache :
          /\ cache[x].last_accessed <= cache[y].last_accessed
          /\ cache[x].last_accessed = cache[y].last_accessed
                => Pos(order, x) <= Pos(order, y)

C3_EvictsExactlyTheLru ==
    [][\A k \in Keys \ DOMAIN cache :
          (max_size >= 1 /\ Cardinality(DOMAIN cache) = max_size /\ IsSet(k)) =>
              \E x \in DOMAIN cache :
                  /\ StatedLru(x)
                  /\ DOMAIN cache' = ((DOMAIN cache) \ {x}) \cup {k}
                  /\ \A y \in (DOMAIN cache) \ {x} : cache'[y] = cache[y]
                  /\ order' = Append(Without(order, x), k)]_vars

\* A set has just evicted one of two entries whose last_accessed differ.
C3_Witness ==
    /\ last.op = "set"
    /\ Cardinality(last.removed) = 1
    /\ max_size = 2
    /\ Len(order) = 2
    /\ \E y \in DOMAIN cache : y # last.key /\ cache[y].access_count > 0

\* C4: every public operation is atomic with respect to every other and to
\* the sweep on the same cache: two threads are never inside a method body at
\* once, a thread inside one finds the mapping as its own last statement left
\* it, and no call fails because its entry went away between its check and
\* its action.
C4_OperationsAreAtomic ==
    /\ \A t \in Threads : th[t].pc # "KeyError"
    /\ \A t \in Threads : th[t].pc # "idle" => (lock = t /\ cache = th[t].seen)
    /\ \A t, u \in Threads : (th[t].pc # "idle" /\ th[u].pc # "idle") => t = u

\* A get is about to delete the expired entry it has found, while the sweep
\* thread would remove the same entry.
C4_Witness ==
    \E t \in ClientThreads :
        /\ th[t].pc = "del" /\ th[t].op = "get"
        /\ th[t].key \in DOMAIN cache
        /\ IsExpired(cache[th[t].key], now)
        /\ th["sweep"].pc = "idle"

\* C5: an entry stored with ttl T > 0 (default_ttl when no ttl is given) at
\* time t0 is returned by get at every time up to and including t0 + T and at
\* no later time, as long as it stays in the cache and is not overwritten; a
\* successful get does not postpone its expiry.
C5_LiveExactlyUntilTtl ==
    [][/\ \A k \in Keys :
              (IsSet(k) /\ (last'.ttl_given => last'.ttl > 0)) =>
                  /\ cache'[k].created_at = now
                  /\ cache'[k].ttl = (IF last'.ttl_given THEN last'.ttl ELSE default_ttl)
                  /\ \A v \in Values :
                        Set(k, v, last'.ttl_given, last'.ttl) => cache'[k].value = v
       /\ \A k \in DOMAIN cache :
              cache[k].ttl > 0 =>
                  /\ now <= cache[k].created_at + cache[k].ttl
                        => GetReturn(k, Default) = cache[k].value
                  /\ now > cache[k].created_at + cache[k].ttl
                        => GetReturn(k, Default) = Default
       /\ \A k \in (DOMAIN cache) \cap (DOMAIN cache') :
              \/ /\ cache'[k].created_at = cache[k].created_at
                 /\ cache'[k].ttl = cache[k].ttl
                 /\ cache'[k].value = cache[k].value
              \/ IsSet(k)]_vars

\* A get has just returned an entry at the last instant of its life,
\* created_at + ttl.
C5_Witness ==
    /\ last.op = "get"
    /\ last.removed = {}
    /\ last.key \in DOMAIN cache
    /\ cache[last.key].ttl > 0
    /\ cache[last.key].last_accessed = cache[last.key].created_at + cache[last.key].ttl

\* C6: an entry stored with set(key, value, ttl=0) never expires: while it is
\* not deleted, overwritten, cleared or evicted (here: while that set is the
\* last call that changed the cache), get returns its value at every later
\* time and a sweep would not remove it.
C6_TtlZeroNeverExpires ==
    (last.op = "set" /\ last.ttl_given /\ last.ttl = 0) =>
        /\ last.key \in DOMAIN cache
        /\ GetReturn(last.key, Default) = cache[last.key].value
        /\ last.key \in DOMAIN Swept(cache, now)

C8_CleanupRemovesExactlyExpired ==
    [][/\ CleanupReturn = Cardinality({k \in DOMAIN cache : StatedExpired(cache[k], now)})
       /\ (Cleanup \/ Sweep) =>
              /\ DOMAIN cache' = {k \in DOMAIN cache : ~StatedExpired(cache[k], now)}
              /\ \A k \in DOMAIN cache' : cache'[k] = cache[k]
              /\ CleanupReturn = Cardinality(DOMAIN cache) - Cardinality(DOMAIN cache')]_vars

\* cleanup_expired has just removed an expired entry and kept a live one.
C8_Witness ==
    /\ last.op = "cleanup_expired"
    /\ last.removed # {}
    /\ \E k \in DOMAIN cache : cache[k].ttl > 0

\* C9: eviction follows the order of operations: in a full cache, if entry a
\* was returned by a get after entry b was last written or read, the next set
\* of a new key does not evict a while b stays.
C9_EvictionFollowsUseOrder ==
    [][\A a, b \in DOMAIN cache :
          (/\ a # b
           /\ cache[a].access_count > 0
           /\ Pos(recency, a) > Pos(recency, b)
           /\ Cardinality(DOMAIN cache) = max_size
           /\ \E k \in Keys \ DOMAIN cache : IsSet(k))
              => ~(a \notin DOMAIN cache' /\ b \in DOMAIN cache')]_vars

\* C10: set on a present key evicts nothing and leaves the size unchanged; it
\* replaces the value and resets the metadata: access_count 0, created_at and
\* last_accessed now, ttl the new ttl; a get then returns the new value.
C10_OverwriteResetsEntry ==
    [][\A k \in DOMAIN cache, v \in Values, given \in BOOLEAN, ttl \in TtlArgs :
          SetStep(k, v, given, ttl) =>
              /\ DOMAIN cache' = DOMAIN cache
              /\ SizeReturn' = SizeReturn
              /\ order' = order
              /\ \A y \in (DOMAIN cache) \ {k} : cache'[y] = cache[y]
              /\ cache'[k] = [value |-> v,
                              ttl |-> IF given THEN ttl ELSE default_ttl,
                              created_at |-> now,
                              access_count |-> 0,
                              last_accessed |-> now]
              /\ GetReturn(k, Default)' = v]_vars

\* C11: get on a present, live key returns the stored value, adds exactly one
\* to the entry's access_count and sets its last_accessed to now, and changes
\* nothing else; get on an absent key returns the caller's default and leaves
\* the cache as it is.
C11_GetTouchesOnlyItsEntry ==
    [][\A k \in Keys :
          /\ k \notin DOMAIN cache =>
                /\ GetReturn(k, Default) = Default
                /\ Get(k, Default) => UNCHANGED <<cache, order>>
          /\ (k \in DOMAIN cache /\ ~StatedExpired(cache[k], now)) =>
                /\ GetReturn(k, Default) = cache[k].value
                /\ (last'.op = "get" /\ last'.key = k /\ Get(k, Default)) =>
                      /\ DOMAIN cache' = DOMAIN cache
                      /\ order' = order
                      /\ \A y \in (DOMAIN cache) \ {k} : cache'[y] = cache[y]
                      /\ cache'[k] = [value |-> cache[k].value,
                                      ttl |-> cache[k].ttl,
                                      created_at |-> cache[k].created_at,
                                      access_count |-> cache[k].access_count + 1,
                                      last_accessed |-> now]]_vars

\* A get has just returned an entry stored at an earlier time, next to
\* another entry.
C11_Witness ==
    /\ last.op = "get"
    /\ last.removed = {}
    /\ last.key \in DOMAIN cache
    /\ cache[last.key].access_count = 1
    /\ cache[last.key].last_accessed > cache[last.key].created_at
    /\ Cardinality(DOMAIN cache) = 2

\* C12: no cache operation raises because of the key it is passed: whatever
\* the kind of the key, mappings whose keys cannot be ordered and keys whose
\* contents cannot be serialized included, get, set, delete, exists and ttl
\* complete normally.
C12_NoCallRaisesOnKey == raised = {}

\* Two mappings hold the same key-value pairs, in whatever order.
SamePairs(m1, m2) ==
    {m1.items[i] : i \in 1..Len(m1.items)} = {m2.items[i] : i \in 1..Len(m2.items)}

\* The outcome of normalizing each mapping key: its identifier, or
\* "TypeError" when _generate_key raises.
MappingOutcome ==
    [m \in MappingKeys |-> IF KeyRaises(m) THEN "TypeError" ELSE GenerateKey(m)]

\* The mappings that hold the same pairs as a mapping.
Reordered == [m1 \in MappingKeys |-> {m2 \in MappingKeys : SamePairs(m1, m2)}]

\* C13: normalizing a mapping does not depend on its insertion order: two
\* mappings with the same key-value pairs have the same outcome of
\* normalization, the same identifier when there is one, and a value set under
\* one is returned by get under the other.
C13_MappingKeyIgnoresInsertionOrder ==
    [][/\ raised' # raised =>
              \A m1 \in MappingKeys : \A m2 \in Reordered[m1] :
                  KeyRaises(m1) <=> KeyRaises(m2)
       /\ (last'.op = "set" /\ cache' # cache) =>
              \A m1 \in MappingKeys :
                  (/\ last'.key = MappingOutcome[m1]
                   /\ \E v \in KeyValues : SetKey(m1, v)) =>
                      \A m2 \in Reordered[m1] :
                          /\ ~KeyRaises(m2)
                          /\ GenerateKey(m2) = GenerateKey(m1)
                          /\ \A v \in KeyValues :
                                SetKey(m1, v) =>
                                    GetReturn(GenerateKey(m2), Default)' = v]_vars

\* A value has just been set under a mapping of two pairs inserted in
\* descending order of their keys.
C13_Witness ==
    \E m \in MappingKeys :
        /\ Len(m.items) = 2
        /\ ~KeyRaises(m)
        /\ m.items[1][1].v > m.items[2][1].v
        /\ last.op = "set"
        /\ last.key = GenerateKey(m)
        /\ last.key \in DOMAIN cache

\* C14: two sequence keys normalize to the same identifier if and only if
\* they hold the same elements in the same order: the entry just set under
\* one sequence is the entry another sequence addresses exactly when the two
\* have the same items.
C14_SequenceKeysSameIffSameItems ==
    \A s1, s2 \in SequenceKeys :
        (/\ ~KeyRaises(s1)
         /\ ~KeyRaises(s2)
         /\ last.op = "set"
         /\ last.key = GenerateKey(s1))
            => (GenerateKey(s2) = last.key <=> s2.items = s1.items)

\* C15: the registry is safe under concurrency: the threads that get_cache
\* has answered for one name hold the same MemoryCache, so that what one sets
\* the other finds, and one cache only has been constructed for each
\* registered name.
C15_OneInstancePerName ==
    /\ \A t, u \in ManagerThreads :
          (mth[t].pc = "done" /\ mth[u].pc = "done" /\ mth[t].name = mth[u].name) =>
              /\ mth[t].ret = mth[u].ret
              /\ \A k \in InstanceKeys : UseGetReturn(t, k) = UseGetReturn(u, k)
    /\ (\A t \in ManagerThreads : mth[t].pc # "store") =>
          Len(instances) = 1 + Cardinality(DOMAIN caches)

\* C16: the manager has one default cache, the one get_cache('default')
\* returns, and after any sequence of manager operations get_all_stats and
\* cleanup_all hold one result for every named cache plus one for the default
\* cache, the result under 'default' being the default cache's.
C16_DefaultCacheAndFanOut ==
    /\ "default" \in DOMAIN caches => GetCacheReturn("default") = default_cache
    /\ Cardinality(DOMAIN GetAllStatsReturn) = Cardinality(Managed)
    /\ Cardinality(DOMAIN CleanupAllReturn) = Cardinality(Managed)
    /\ GetAllStatsReturn["default"] = Stats(instances[default_cache])
    /\ CleanupAllReturn["default"] = Removed(instances[default_cache])

\* The live tier succeeds, as the specification states it: the country has an
\* ISO code and the provider gives a value for at least one of gdp,
\* gdp_per_capita, life_expectancy and internet_penetration.
StatedLiveSucceeds(q) ==
    /\ GetCountryIsoCode(q.name) # ""
    /\ \E key \in {"gdp", "gdp_per_capita", "life_expectancy", "internet_penetration"} :
           q.responses[key].kind = "value"

\* C17: get_economic_data returns the record of the first tier that succeeds:
\* tagged 'world_bank' whenever the live tier succeeds, 'sample' exactly when
\* the live tier fails and the name is in the static table, 'estimated'
\* exactly when both fail.
C17_FirstTierThatSucceedsWins ==
    (result.called /\ result.raised = "") =>
        /\ StatedLiveSucceeds(query) => result.data.data_source = "world_bank"
        /\ result.data.data_source = "sample" <=>
               (~StatedLiveSucceeds(query) /\ query.name \in DOMAIN sample_data)
        /\ result.data.data_source = "estimated" <=>
               (~StatedLiveSucceeds(query) /\ query.name \notin DOMAIN sample_data)

\* C18: every call of get_economic_data returns, and returns a record tagged
\* with one of the three tiers, whatever the provider answers.
C18_EstimatorNeverFails ==
    result.called =>
        /\ result.raised = ""
        /\ result.data.data_source \in {"world_bank", "sample", "estimated"}

C20_NoUsableDataFailsLiveTier ==
    (result.called /\ result.raised = "" /\ ~StatedLiveSucceeds(query)) =>
        result.data.data_source \in {"sample", "estimated"}

\* x lies in [low, high].
Within(low, high, x) == low <= x /\ x <= high

\* C21: the record of the estimation tier has hdi in [0.3, 0.99],
\* life_expectancy in [50, 85] and internet_penetration in [5, 95], and the
\* variations taken from the seed lie in [-0.01, 0.01], [-5, 5] and
\* [-7.5, 7.5] (all in units of 1/Scale).
C21_EstimateWithinRanges ==
    (result.called /\ result.data.data_source = "estimated") =>
        LET country_hash == CountryHash(query.name)
        IN  /\ result.data.hdi.d = Scale
            /\ result.data.life_expectancy.d = Scale
            /\ result.data.internet_penetration.d = Scale
            /\ Within(900000, 2970000, result.data.hdi.m * result.data.hdi.k)
            /\ Within(150000000, 255000000,
                      result.data.life_expectancy.m * result.data.life_expectancy.k)
            /\ Within(15000000, 285000000,
                      result.data.internet_penetration.m
                          * result.data.internet_penetration.k)
            /\ Within(-30000, 30000, HdiVariation(country_hash))
            /\ Within(-15000000, 15000000, LifeVariation(country_hash))
            /\ Within(-22500000, 22500000, InternetVariation(country_hash))

\* An estimate with the highest variations, whose life expectancy and
\* internet penetration are held by the clamps.
C21_Witness ==
    /\ result.called
    /\ result.data.data_source = "estimated"
    /\ query.name = "Country 231"
    /\ InternetVariation(CountryHash(query.name)) = 19500000
    /\ result.data.life_expectancy = Scaled(255000000)
    /\ result.data.internet_penetration = Scaled(285000000)

\* The population multiplier as the specification states it, in tenths.
StatedPopulationFactor(population) ==
    CASE population > 100000000 -> 6
      [] population <= 100000000 /\ population > 50000000 -> 8
      [] population <= 50000000 /\ population > 10000000 -> 10
      [] population <= 10000000 /\ population > 1000000 -> 12
      [] population <= 1000000 -> 14

\* The base as the specification states it: the table's value for the region,
\* Asia's for an unknown or missing one.
StatedBase(region) ==
    IF region \in DOMAIN base_gdp_by_region THEN base_gdp_by_region[region]
    ELSE base_gdp_by_region["Asia"]

\* C22: in the estimation tier gdp_per_capita = base(region) * variation *
\* population_factor with variation = 0.5 + (seed mod 100)/100 in [0.5, 1.5],
\* the seed that of the name, and gdp = gdp_per_capita * population, 0 when
\* the population is 0.
C22_EstimatedGdp ==
    (result.called /\ result.data.data_source = "estimated") =>
        LET variation == 50 + HashMod(CountryHash(query.name), 100)
            gdp_per_capita == result.data.gdp_per_capita
            gdp == result.data.gdp
        IN  /\ Within(50, 150, variation)
            /\ base_gdp_by_region["Asia"] = 8000
            /\ gdp_per_capita.k = 1 /\ gdp_per_capita.d = 1
            /\ gdp_per_capita.m * 1000 =
                   StatedBase(query.region) * variation
                       * StatedPopulationFactor(query.population)
            /\ IF query.population = 0 THEN gdp = Zero
               ELSE gdp = Num(gdp_per_capita.m, query.population, 1)

\* An estimate for a population on a threshold and a region outside the table.
C22_Witness ==
    /\ result.called
    /\ result.data.data_source = "estimated"
    /\ query.population = 1000000
    /\ query.region = "Atlantis"
    /\ query.name = "Country 231"
    /\ result.data.gdp_per_capita = Amount(16688)

\* C23: the record of the static-table tier holds the table's gdp, hdi,
\* life_expectancy and internet_penetration for the name, gdp_per_capita =
\* gdp / population (0 when the population is 0) and data_source 'sample';
\* for 'Comoros' with population 900000: gdp 1200000000 and gdp_per_capita
\* 1200000000 / 900000.
C23_SampleRecord ==
    (result.called /\ result.data.data_source = "sample") =>
        /\ query.name \in DOMAIN sample_data
        /\ result.data.gdp = sample_data[query.name].gdp
        /\ result.data.hdi = sample_data[query.name].hdi
        /\ result.data.life_expectancy = sample_data[query.name].life_expectancy
        /\ result.data.internet_penetration =
               sample_data[query.name].internet_penetration
        /\ IF query.population = 0 THEN result.data.gdp_per_capita = Zero
           ELSE /\ result.data.gdp_per_capita.m = result.data.gdp.m
                /\ result.data.gdp_per_capita.k = result.data.gdp.k
                /\ result.data.gdp_per_capita.d
                       = result.data.gdp.d * query.population
        /\ (query.name = "Comoros" /\ query.population = 900000) =>
               /\ result.data.gdp.m * result.data.gdp.k = 1200000000
               /\ result.data.gdp.d = 1
               /\ result.data.gdp_per_capita.m * result.data.gdp_per_capita.k
                      = 1200000000
               /\ result.data.gdp_per_capita.d = 900000

\* 'Comoros' with population 900000 and region 'Africa', the provider silent.
C23_Witness ==
    /\ result.called
    /\ result.data.data_source = "sample"
    /\ query.name = "Comoros"
    /\ query.population = 900000
    /\ query.region = "Africa"
    /\ query.responses = Silent("error")

\* The back-fill formula as the specification states it, in units of 1/Scale:
\* above 50000: 0.9 + (x-50000)/1e6; above 20000: 0.7 + (x-20000)/1e5;
\* above 5000: 0.5 + (x-5000)/3e4; else 0.3 + x/1e4; held in [0.3, 0.99].
StatedBackFill(x) ==
    LET hdi == CASE x > 50000 -> (9 * Scale) \div 10 + (x - 50000) * (Scale \div 1000000)
                 [] x <= 50000 /\ x > 20000 ->
                        (7 * Scale) \div 10 + (x - 20000) * (Scale \div 100000)
                 [] x <= 20000 /\ x > 5000 ->
                        (5 * Scale) \div 10 + (x - 5000) * (Scale \div 30000)
                 [] x <= 5000 -> (3 * Scale) \div 10 + x * (Scale \div 10000)
    IN  IF hdi < 900000 THEN 900000 ELSE IF hdi > 2970000 THEN 2970000 ELSE hdi

\* C24: whenever the live tier succeeds, the record is tagged 'world_bank'
\* and its hdi lies in [0.3, 0.99], back-filled from the GDP per capita with
\* the piecewise formula.
C24_LiveHdiBackFilled ==
    (result.called /\ result.raised = "" /\ StatedLiveSucceeds(query)) =>
        LET x == query.responses["gdp_per_capita"]
        IN  /\ result.data.data_source = "world_bank"
            /\ result.data.hdi.d = Scale
            /\ Within(900000, 2970000, result.data.hdi.m * result.data.hdi.k)
            /\ x.kind = "value" => result.data.hdi = Scaled(StatedBackFill(x.value.m))

\* The same for the calls in which the provider gave a GDP per capita.
BackFilledFromGdpPerCapita ==
    query.responses["gdp_per_capita"].kind = "value" => C24_LiveHdiBackFilled

\* C25: a failure on one entry does not stop the sweep: the pass in which
\* it happens still removes the entries that have expired, and the sweep
\* thread is running after it as before.
C25_SweepSurvivesBadEntry ==
    [][(sweeper = "running" /\ raised' # raised) =>
           /\ sweeper' = "running"
           /\ \A k \in DOMAIN cache :
                  (~IsExpiredRaises(cache[k]) /\ IsExpired(cache[k], now))
                      => k \notin DOMAIN cache']_vars

\* r seconds remain until the entry expires: it is live r seconds from t and
\* expired a second later.
RemainsFor(item, t, r) ==
    /\ ~StatedExpired(item, t + r)
    /\ StatedExpired(item, t + r + 1)

\* C26: ttl(key) returns -1 exactly when the key is absent or its entry
\* expired, and otherwise the number of seconds, 0 or more, that remain until
\* the entry expires.
C26_TtlReturnsRemaining ==
    \A k \in Keys :
        LET r == TtlReturn(k)
        IN  /\ r = -1 <=> (k \notin DOMAIN cache \/ StatedExpired(cache[k], now))
            /\ r # -1 => (r >= 0 /\ RemainsFor(cache[k], now, r))

\* The same for the entries that expire at some time.
TtlOfExpiringEntries ==
    \A k \in Keys :
        (k \in DOMAIN cache /\ cache[k].ttl <= 0) \/
        LET r == TtlReturn(k)
        IN  /\ r = -1 <=> (k \notin DOMAIN cache \/ StatedExpired(cache[k], now))
            /\ r # -1 => (r >= 0 /\ RemainsFor(cache[k], now, r))

\* ttl(key) removes the entry it finds expired and changes nothing else.
TtlRemovesOnlyExpired ==
    [][\A k \in Keys :
           Ttl(k) =>
               IF k \in DOMAIN cache /\ StatedExpired(cache[k], now)
               THEN cache' = Drop(cache, k)
               ELSE cache' = cache]_vars

\* C27: delete(key) returns true exactly when it removes an entry, which it
\* does exactly when the key was present; after it the key is absent (get
\* returns the default, exists false, ttl -1), every other entry is as it was,
\* and nothing is raised.
C27_DeleteRemovesItsKeyOnly ==
    [][\A k \in Keys :
           Delete(k) =>
               /\ DeleteReturn(k) <=> k \in DOMAIN cache
               /\ DeleteReturn(k) <=> cache' # cache
               /\ k \notin DOMAIN cache'
               /\ GetReturn(k, Default)' = Default
               /\ ExistsReturn(k)' = FALSE
               /\ TtlReturn(k)' = -1
               /\ DOMAIN cache' = (DOMAIN cache) \ {k}
               /\ \A j \in DOMAIN cache' : cache'[j] = cache[j]
               /\ raised' = raised]_vars

\* A delete has removed the entry of its key and left another in the cache.
C27_Witness ==
    /\ last.op = "delete"
    /\ last.removed = {last.key}
    /\ DOMAIN cache # {}

\* C28: keys(), size() and stats() change nothing (keys() lists the keys
\* that are not expired, size() and stats() count the expired ones too);
\* exists() and ttl() on a live entry change nothing; an entry's
\* access_count and last_accessed change only in a set of its key or in a get
\* of its key that returns its value.
C28_QueriesLeaveMetadata ==
    /\ [](/\ {KeysReturn[i] : i \in 1..Len(KeysReturn)}
                 = {k \in DOMAIN cache : ~StatedExpired(cache[k], now)}
          /\ SizeReturn = Cardinality(DOMAIN cache)
          /\ StatsReturn.total_items = SizeReturn
          /\ StatsReturn.active_items = Len(KeysReturn))
    /\ [][/\ (cache' = cache /\ order' = order) \/ ~(Size \/ ListKeys \/ CacheStats)
          /\ (cache' = cache /\ order' = order) \/
             \A k \in DOMAIN cache :
                 ~(~StatedExpired(cache[k], now) /\ (Exists(k) \/ Ttl(k)))
          /\ cache' = cache \/
             \A k \in (DOMAIN cache) \cap (DOMAIN cache') :
                 (\/ cache'[k].access_count # cache[k].access_count
                  \/ cache'[k].last_accessed # cache[k].last_accessed)
                     => /\ last'.key = k
                        /\ last'.op \in {"get", "set"}
                        /\ last'.op = "get" =>
                               GetReturn(k, Default) = cache[k].value]_vars

\* An expired entry that keys() leaves out and size() counts, next to a live
\* entry that a get has touched.
C28_Witness ==
    /\ Len(KeysReturn) < SizeReturn
    /\ \E k \in DOMAIN cache :
           ~IsExpired(cache[k], now) /\ cache[k].access_count > 0

\* C29: delete_cache(name) returns true exactly when the name was
\* registered; it empties that cache, unregisters the name and leaves every
\* other cache as it was, and the next get_cache(name) returns a new, empty
\* cache; clear_all empties every registered cache and the default cache and
\* leaves the registered names as they were.
C29_DeleteCacheAndClearAll ==
    [][/\ \A name \in CacheNames :
              DeleteCache(name) =>
                  /\ DeleteCacheReturn(name) <=> name \in DOMAIN caches
                  /\ DeleteCacheReturn(name) <=> caches' # caches
                  /\ name \notin DOMAIN caches'
                  /\ \A n \in DOMAIN caches' : caches'[n] = caches[n]
                  /\ DOMAIN caches' = (DOMAIN caches) \ {name}
                  /\ default_cache' = default_cache
                  /\ \A i \in DOMAIN instances :
                         instances'[i] =
                             IF name \in DOMAIN caches /\ i = caches[name]
                             THEN EmptyCache ELSE instances[i]
       /\ \A name \in CacheNames \ DOMAIN caches :
              GetCache(name) =>
                  /\ caches'[name] \notin DOMAIN instances
                  /\ instances'[caches'[name]] = EmptyCache
       /\ ClearAll =>
              /\ caches' = caches
              /\ default_cache' = default_cache
              /\ \A n \in DOMAIN caches : instances'[caches[n]] = EmptyCache
              /\ instances'[default_cache] = EmptyCache]_vars

\* No name is registered any more, after three caches were constructed, and
\* the default cache holds an entry: a delete_cache has unregistered a name
\* and left the default cache alone.
C29_Witness ==
    /\ DOMAIN caches = {}
    /\ Len(instances) = 3
    /\ instances[default_cache]["a"] = "live"

\* C30: APICache.get(key) returns the data of the latest set(key, data) if
\* that was less than one hour ago, and None if the key is not in the cache
\* or was stored one hour ago or more: no data is served more than one hour
\* after it was stored.
C30_ServedWithinTheHour ==
    \A key \in APIKeys :
        IF key \in DOMAIN api_cache /\ clock.real - api_cache[key].stored < Hour
        THEN APIGetReturn(key) = api_cache[key].data
        ELSE APIGetReturn(key) = None

\* The same for the entries stored under the shift of the local time that is
\* in force now.
ServedWithinTheHourUnshifted ==
    \A key \in APIKeys :
        (key \in DOMAIN api_cache
            /\ api_cache[key].timestamp - api_cache[key].stored # clock.shift) \/
        IF key \in DOMAIN api_cache /\ clock.real - api_cache[key].stored < Hour
        THEN APIGetReturn(key) = api_cache[key].data
        ELSE APIGetReturn(key) = None

\* C38: the HDI derived from the GDP per capita does not decrease when the
\* GDP per capita grows: the hdi of a live record for a GDP per capita y is
\* not lower than the HDI the formula gives, before and after the clamp, for
\* any x < y.
C38_HdiMonotoneInGdpPerCapita ==
    (/\ result.called
     /\ result.data.data_source = "world_bank"
     /\ query.responses["gdp_per_capita"].kind = "value") =>
        LET y == query.responses["gdp_per_capita"].value.m
        IN  \A x \in GdpPerCapitaValues :
                x < y =>
                    /\ HdiFromGdpPerCapita(x) <= HdiFromGdpPerCapita(y)
                    /\ Clamp(900000, 2970000, HdiFromGdpPerCapita(x))
                           <= result.data.hdi.m

\* C32: when set makes room for a new key in a full cache, it does not evict
\* an entry that has not expired while an expired entry that was not swept
\* yet is present.
C32_EvictsExpiredBeforeLive ==
    [][(/\ last'.op = "set"
        /\ last'.key \notin DOMAIN cache
        /\ IsSet(last'.key)
        /\ \E e \in DOMAIN cache : StatedExpired(cache[e], now)) =>
            \A x \in last'.removed : StatedExpired(cache[x], now)]_vars

\* C32, amended: when set makes room for a new key in a full cache, it does
\* not evict an entry that has not expired while an expired entry that was
\* used less recently (or as long ago, and comes first in iteration order) is
\* present.
C32_EvictsExpiredIfLessRecent ==
    [][(/\ last'.op = "set"
        /\ last'.removed # {}
        /\ last'.removed \subseteq DOMAIN cache
        /\ last'.key \notin DOMAIN cache
        /\ IsSet(last'.key)) =>
            \A x \in last'.removed : \A e \in (DOMAIN cache) \ {x} :
                (~StatedExpired(cache[x], now) /\ StatedExpired(cache[e], now)) =>
                    \/ cache[x].last_accessed < cache[e].last_accessed
                    \/ /\ cache[x].last_accessed = cache[e].last_accessed
                       /\ Pos(order, x) < Pos(order, e)]_vars

\* A set has evicted the least recently used entry while an expired entry,
\* read since it was stored, was present: the expired entry is still there.
C32_Witness ==
    /\ last.op = "set"
    /\ last.removed # {}
    /\ \E e \in (DOMAIN cache) \ {last.key} :
          /\ StatedExpired(cache[e], now)
          /\ cache[e].last_accessed > 0

\* C35: invalidate_cache returns the number of entries it removed from the
\* cache: with a pattern it removes exactly the entries that have not expired
\* and whose stored key contains the pattern; with no pattern it removes every
\* entry and returns how many there were.
C35_InvalidateReturnsRemoved ==
    [][\A given \in BOOLEAN, pattern \in Patterns :
          (/\ last'.op = "invalidate_cache"
           /\ last'.ttl_given = given /\ last'.key = pattern
           /\ InvalidateCache(given, pattern)) =>
              /\ InvalidateCacheReturn(given, pattern)
                     = Cardinality((DOMAIN cache) \ (DOMAIN cache'))
              /\ given =>
                     (DOMAIN cache) \ (DOMAIN cache')
                         = {k \in DOMAIN cache : /\ ~StatedExpired(cache[k], now)
                                                 /\ Contains(pattern, k)}
              /\ ~given => /\ cache' = <<>>
                           /\ InvalidateCacheReturn(given, pattern)
                                  = Cardinality(DOMAIN cache)]_vars

\* With a pattern, invalidate_cache returns the number of entries it removed,
\* which are the entries that have not expired and contain the pattern.
InvalidateWithPattern ==
    [][\A pattern \in Patterns :
          (/\ last'.op = "invalidate_cache"
           /\ last'.ttl_given /\ last'.key = pattern
           /\ InvalidateCache(TRUE, pattern)) =>
              /\ InvalidateCacheReturn(TRUE, pattern)
                     = Cardinality((DOMAIN cache) \ (DOMAIN cache'))
              /\ (DOMAIN cache) \ (DOMAIN cache')
                     = {k \in DOMAIN cache : /\ ~StatedExpired(cache[k], now)
                                             /\ Contains(pattern, k)}]_vars

\* The call of the wrapped function with the arguments args is this step.
WrapperStep(args) ==
    /\ last'.op = "wrapper" /\ last'.key = CacheKey(args)
    /\ Wrapper(args)

\* C34: a function wrapped by cache_result keeps the cache-hit contract for
\* every result, None included: a call made while the entry an earlier call
\* with the same arguments stored is present and not expired returns the same
\* result and does not execute the function again.
C34_HitForEveryResult ==
    [][\A args \in FuncArgs :
          (/\ WrapperStep(args)
           /\ CacheKey(args) \in DOMAIN cache
           /\ ~StatedExpired(cache[CacheKey(args)], now)) =>
              /\ answer'.value = Func(args)
              /\ ~answer'.executed]_vars

\* The same for the results that are not None.
HitForResultsNotNone ==
    [][\A args \in FuncArgs :
          (/\ WrapperStep(args)
           /\ Func(args) # None
           /\ CacheKey(args) \in DOMAIN cache
           /\ ~StatedExpired(cache[CacheKey(args)], now)) =>
              /\ answer'.value = Func(args)
              /\ ~answer'.executed]_vars

\* The kind of a key: a list and a tuple are both sequences.
KindOf(key) == IF key.kind \in {"list", "tuple"} THEN "sequence" ELSE key.kind

\* C33: keys of different kinds (string, mapping, sequence, other) never get
\* the same identifier: the entry just set under a key of one kind is not the
\* entry a key of another kind addresses.
C33_NoAliasAcrossKinds ==
    \A k1, k2 \in RawKeys :
        (/\ ~KeyRaises(k1)
         /\ ~KeyRaises(k2)
         /\ KindOf(k1) # KindOf(k2)
         /\ last.op = "set"
         /\ last.key = GenerateKey(k1))
            => GenerateKey(k2) # last.key

\* The request to compare c1 and c2 is this step.
CompareStep(c1, c2) ==
    /\ response'.c1 = c1 /\ response'.c2 = c2
    /\ Compare(c1, c2)

\* C31: a compare request without both c1 and c2 is answered 400; one that
\* names a country neither in the database nor found by the catalog is
\* answered 404; neither stores a Comparison row. Every request answered 200
\* stores exactly one Comparison row, for the two names requested.
C31_CompareStatusAndRows ==
    [][\A c1, c2 \in CompareArgs :
          CompareStep(c1, c2) =>
              /\ (c1 \in {None, ""} \/ c2 \in {None, ""}) =>
                     response'.status = 400 /\ comparisons' = comparisons
              /\ (/\ c1 \in CompareNames /\ c2 \in CompareNames
                  /\ \E c \in {c1, c2} :
                        /\ c \notin countries
                        /\ GetCountryDetails(c).kind # "found") =>
                     response'.status = 404 /\ comparisons' = comparisons
              /\ response'.status = 200 =>
                     comparisons' = Append(comparisons,
                                        [country1_name |-> c1, country2_name |-> c2])
              /\ response'.status \in {200, 400, 404}]_vars

\* A request answered 200 stored its row, and a later request naming a
\* country that is in neither place was answered 404 and stored none, after
\* the other country was fetched from the catalog.
C31_Witness ==
    /\ response = Answer(404, "fij", "Atlantis")
    /\ comparisons = <<[country1_name |-> "fij", country2_name |-> "Test Country"]>>
    /\ "Fiji" \in countries

\* C36: get_all_stats, cleanup_all and clear_all complete without error while
\* other threads register and remove named caches, and a call that has
\* returned has treated every cache that stayed registered throughout it.
C36_IterationSafeUnderRegistration ==
    /\ "RuntimeError" \notin raised
    /\ \A t \in ManagerThreads :
          /\ mth[t].pc # "raised"
          /\ (mth[t].pc = "done" /\ mth[t].op \in IterationOps) =>
                mth[t].kept \subseteq mth[t].seen

\* A call that returns has treated every cache that stayed registered
\* throughout it.
ReturnedCallsCoverKept ==
    \A t \in ManagerThreads :
        (mth[t].pc = "done" /\ mth[t].op \in IterationOps) =>
            mth[t].kept \subseteq mth[t].seen

\* The thread is inside a method of the cache: it has taken the lock and has
\* not returned or raised.
InCall(t) == th[t].pc \notin {"idle", "KeyError"}

PieceOf(x) ==
    IF x > 50000 THEN 4 ELSE IF x > 20000 THEN 3 ELSE IF x > 5000 THEN 2 ELSE 1

\* C38, amended: within each piece of the formula (up to 5000, up to 20000,
\* up to 50000, above) the HDI derived from the GDP per capita does not
\* decrease when the GDP per capita grows: the hdi of a live record for a GDP
\* per capita y is not lower than the HDI the formula gives, before and after
\* the clamp, for any x < y of the same piece.
C38_HdiMonotoneWithinPieces ==
    (/\ result.called
     /\ result.data.data_source = "world_bank"
     /\ query.responses["gdp_per_capita"].kind = "value") =>
        LET y == query.responses["gdp_per_capita"].value.m
        IN  \A x \in GdpPerCapitaValues :
                (x < y /\ PieceOf(x) = PieceOf(y)) =>
                    /\ HdiFromGdpPerCapita(x) <= HdiFromGdpPerCapita(y)
                    /\ Clamp(900000, 2970000, HdiFromGdpPerCapita(x))
                           <= result.data.hdi.m

\* A live record for a GDP per capita of 20000, the top of its piece: its hdi
\* is held at 0.99, above the 0.6667 of 10000.
C38_Witness ==
    /\ result.called
    /\ result.data.data_source = "world_bank"
    /\ query.responses["gdp_per_capita"].kind = "value"
    /\ query.responses["gdp_per_capita"].value.m = 20000
    /\ result.data.hdi.m = 2970000
    /\ Clamp(900000, 2970000, HdiFromGdpPerCapita(10000)) = 2000000

====
